---- MODULE Spec2Model ----
(***************************************************************************)
(* Franchisee enrichment engine (bhav28vor/Granite_FDD).                   *)
(*                                                                         *)
(* Two pipelines are modelled:                                             *)
(*   - the production pipeline (enrichment_pipeline_production.py):        *)
(*     process_records runs the records batch by batch, the records of a   *)
(*     batch concurrently (asyncio.gather) on ONE ProductionDataEnricher;  *)
(*   - the agentic pipeline (agentic_enrichment_pipeline.py): a fixed      *)
(*     workflow graph run record after record.                             *)
(*                                                                         *)
(* Text is a sequence of one-character strings, so that upper-casing,      *)
(* substring tests, lengths and replacements are computed, not tabulated.  *)
(* Provenance URLs, which the code only joins, are kept as whole chunks.   *)
(* Scores are integers on a fixed scale (the scale is named with each).    *)
(*                                                                         *)
(* The enrichment sources are collaborators of the engine: the code ships  *)
(* simulated ones.  A source call in the model returns what the simulated  *)
(* source returns, or fails / returns nothing where the engine has code    *)
(* for that outcome (the except branch of the retry loop, `if result:`,    *)
(* the defaults of result.get("source_confidence", ...)).  A source call   *)
(* of the production pipeline is a suspension point, as a source that      *)
(* awaits a reply is; the simulated sources return without suspending.     *)
(***************************************************************************)
EXTENDS Integers, Sequences, FiniteSets, TLC

(***************************************************************************)
(* Text helpers (Python str operations used by the code)                   *)
(***************************************************************************)
Lowers == <<"a","b","c","d","e","f","g","h","i","j","k","l","m",
            "n","o","p","q","r","s","t","u","v","w","x","y","z">>
Uppers == <<"A","B","C","D","E","F","G","H","I","J","K","L","M",
            "N","O","P","Q","R","S","T","U","V","W","X","Y","Z">>
DigitChars == {"0","1","2","3","4","5","6","7","8","9"}

\* A value that is not a str (None, or the float NaN pandas gives an empty cell).
NotAStr == <<"<not-a-str>">>

IsStr(v) == v # NotAStr

Min(a, b) == IF a <= b THEN a ELSE b

Max(a, b) == IF a >= b THEN a ELSE b

IndexIn(seq, c) ==
    IF \E k \in 1..Len(seq) : seq[k] = c
    THEN CHOOSE k \in 1..Len(seq) : seq[k] = c /\ \A j \in 1..(k - 1) : seq[j] # c
    ELSE 0

UpperChar(c) == IF IndexIn(Lowers, c) = 0 THEN c ELSE Uppers[IndexIn(Lowers, c)]

LowerChar(c) == IF IndexIn(Uppers, c) = 0 THEN c ELSE Lowers[IndexIn(Uppers, c)]

RECURSIVE Upper(_)
\* str.upper()
Upper(s) == IF s = <<>> THEN <<>> ELSE <<UpperChar(Head(s))>> \o Upper(Tail(s))

RECURSIVE Lower(_)
\* str.lower()
Lower(s) == IF s = <<>> THEN <<>> ELSE <<LowerChar(Head(s))>> \o Lower(Tail(s))

IsAlnum(c) ==
    \/ IndexIn(Lowers, c) # 0
    \/ IndexIn(Uppers, c) # 0
    \/ c \in DigitChars

IsDigit(c) == c \in DigitChars

IsSpace(c) == c = " "

MatchAt(s, sub, k) ==
    /\ k + Len(sub) - 1 <= Len(s)
    /\ \A j \in 1..Len(sub) : s[k + j - 1] = sub[j]

\* sub in s
Contains(s, sub) == \E k \in 1..(Len(s) - Len(sub) + 1) : MatchAt(s, sub, k)

\* s.startswith(sub)
StartsWith(s, sub) == MatchAt(s, sub, 1)

\* s[:n]
Take(s, n) == SubSeq(s, 1, Min(n, Len(s)))

RECURSIVE ReplaceFrom(_, _, _, _)
ReplaceFrom(s, old, new, k) ==
    IF k > Len(s) THEN <<>>
    ELSE IF MatchAt(s, old, k)
         THEN new \o ReplaceFrom(s, old, new, k + Len(old))
         ELSE <<s[k]>> \o ReplaceFrom(s, old, new, k + 1)

\* s.replace(old, new), old non-empty
Replace(s, old, new) == ReplaceFrom(s, old, new, 1)

RECURSIVE LStrip(_)
LStrip(s) ==
    IF s # <<>> /\ IsSpace(Head(s)) THEN LStrip(Tail(s)) ELSE s

RECURSIVE RStrip(_)
RStrip(s) ==
    IF s # <<>> /\ IsSpace(s[Len(s)]) THEN RStrip(SubSeq(s, 1, Len(s) - 1)) ELSE s

\* s.strip()
Strip(s) == RStrip(LStrip(s))

RECURSIVE SplitFrom(_, _, _)
SplitFrom(s, k, word) ==
    IF k > Len(s)
    THEN IF word = <<>> THEN <<>> ELSE <<word>>
    ELSE IF IsSpace(s[k])
         THEN (IF word = <<>> THEN <<>> ELSE <<word>>) \o SplitFrom(s, k + 1, <<>>)
         ELSE SplitFrom(s, k + 1, Append(word, s[k]))

\* s.split(): the whitespace-separated tokens
Split(s) == SplitFrom(s, 1, <<>>)

\* s.split(',', 1): the text before the first comma and the text after it
SplitComma(s) ==
    LET k == IndexIn(s, ",")
    IN IF k = 0 THEN <<s>> ELSE <<SubSeq(s, 1, k - 1), SubSeq(s, k + 1, Len(s))>>

RECURSIVE Join(_, _)
\* sep.join(parts)
Join(parts, sep) ==
    IF parts = <<>> THEN <<>>
    ELSE IF Len(parts) = 1 THEN parts[1]
    ELSE parts[1] \o sep \o Join(Tail(parts), sep)

\* the characters of s that satisfy keep, in order
Digits(s) == SelectSeq(s, IsDigit)

Seq2Set(q) == {q[k] : k \in 1..Len(q)}

RECURSIVE SumSeq(_)
SumSeq(q) == IF q = <<>> THEN 0 ELSE Head(q) + SumSeq(Tail(q))

(***************************************************************************)
(* Text constants of the code                                              *)
(***************************************************************************)
S_LLC == <<" ","L","L","C">>
S_Inc == <<" ","I","n","c">>
U_LLC == <<"L","L","C">>
U_INC == <<"I","N","C">>
S_TX == <<"T","X">>
S_Verified == <<"V","e","r","i","f","i","e","d",":">>
S_CommaSp == <<","," ">>
S_Sp == <<" ">>
S_Dash == <<"-">>
S_LinkedinBare == <<"h","t","t","p","s",":","/","/","l","i","n","k","e","d","i","n",".","c","o","m">>
S_LinkedinWww == <<"h","t","t","p","s",":","/","/","w","w","w",".","l","i","n","k","e","d","i","n",".","c","o","m">>

\* f"{address}, {city}, {state} {zip}"
FormatAddress(address, city, state, zip) ==
    address \o S_CommaSp \o city \o S_CommaSp \o state \o S_Sp \o zip

\* name.replace(' LLC', '').replace(' Inc', '').strip()
CleanBusinessName(name) == Strip(Replace(Replace(name, S_LLC, <<>>), S_Inc, <<>>))

(***************************************************************************)
(* Production pipeline: pure functions                                     *)
(***************************************************************************)
BUSINESS_INDICATORS ==
    << <<"L","L","C">>, <<"I","N","C">>, <<"C","O","R","P">>,
       <<"C","O","R","P","O","R","A","T","I","O","N">>, <<"L","T","D">>,
       <<"L","I","M","I","T","E","D">>, <<"L","P">>, <<"L","L","P">>, <<"C","O">>,
       <<"C","O","M","P","A","N","Y">>, <<"E","N","T","E","R","P","R","I","S","E","S">>,
       <<"G","R","O","U","P">>, <<"V","E","N","T","U","R","E","S">>,
       <<"H","O","L","D","I","N","G","S">>, <<"M","A","N","A","G","E","M","E","N","T">>,
       <<"I","N","V","E","S","T","M","E","N","T","S">>,
       <<"R","E","S","T","A","U","R","A","N","T">>, <<"F","O","O","D","S">>,
       <<"C","H","I","C","K","E","N">>, <<"G","R","I","L","L">> >>

\* sum(1 for indicator in indicators if indicator in text)
CountIn(indicators, text) ==
    Cardinality({k \in 1..Len(indicators) : Contains(text, indicators[k])})

\* A variant of the classifier whose business confidence is not capped at 0.95.
classify_entity_unclamped(franchisee_name) ==
    LET business_score == CountIn(BUSINESS_INDICATORS, Upper(franchisee_name))
        individual_score ==
            (IF Contains(franchisee_name, <<",">>) THEN 1 ELSE 0)
            + (IF Len(Split(franchisee_name)) = 2 /\ business_score = 0 THEN 1 ELSE 0)
    IN  [type |-> IF business_score > 0 THEN "business"
                  ELSE IF individual_score > 0 THEN "individual"
                  ELSE "business",
         confidence |-> IF business_score > 0 THEN 70 + business_score * 10
                        ELSE IF individual_score > 0 THEN 85
                        ELSE 60,
         business_indicators_found |-> business_score,
         individual_patterns_matched |-> individual_score]

\* EnhancedEntityClassifier.classify_entity; confidence in hundredths.
\* franchisee_name.upper() raises AttributeError when the name is not a str.
classify_entity_raises(franchisee_name) == ~IsStr(franchisee_name)

classify_entity(franchisee_name) ==
    LET business_score == CountIn(BUSINESS_INDICATORS, Upper(franchisee_name))
        individual_score ==
            (IF Contains(franchisee_name, <<",">>) THEN 1 ELSE 0)
            + (IF Len(Split(franchisee_name)) = 2 /\ business_score = 0 THEN 1 ELSE 0)
    IN  [type |-> IF business_score > 0 THEN "business"
                  ELSE IF individual_score > 0 THEN "individual"
                  ELSE "business",
         confidence |-> IF business_score > 0 THEN Min(95, 70 + business_score * 10)
                        ELSE IF individual_score > 0 THEN 85
                        ELSE 60,
         business_indicators_found |-> business_score,
         individual_patterns_matched |-> individual_score]

\* EnhancedEntityClassifier.parse_individual_name: <<first_name, last_name>>
parse_individual_name(franchisee_name) ==
    LET name == Strip(franchisee_name)
    IN  IF Contains(name, <<",">>)
        THEN LET parts == SplitComma(name)
                 rest == Strip(parts[2])
             IN <<IF rest # <<>> THEN Split(rest)[1] ELSE <<>>, Strip(parts[1])>>
        ELSE LET parts == Split(name)
             IN IF Len(parts) >= 2
                THEN <<parts[1], Join(Tail(parts), S_Sp)>>
                ELSE <<<<>>, name>>

\* The four sources _execute_enrichment_tasks knows, in the order it builds its tasks
SOURCE_ORDER == <<"business_registry", "google_places", "linkedin", "corporate_database">>

\* ''.join(c.lower() if c.isalnum() else '-' for c in business_name)
RECURSIVE CompanySlug(_)
CompanySlug(name) ==
    IF name = <<>> THEN <<>>
    ELSE <<IF IsAlnum(Head(name)) THEN LowerChar(Head(name)) ELSE "-">> \o CompanySlug(Tail(name))

\* _enrich_from_business_registry: the dict it returns ({} is the empty function)
enrich_from_business_registry(record, entity_type) ==
    IF entity_type # "business" THEN << >>
    ELSE IF Upper(record.state) = S_TX
    THEN [corporate_name |-> record.franchisee,
          corporate_address |-> <<"T","X"," ","R","e","g","i","s","t","e","r","e","d",":"," ">>
                                \o record.address \o S_CommaSp \o record.city
                                \o <<","," ","T","X"," ">> \o record.zip,
          franchisee_owner |-> CleanBusinessName(record.franchisee)]
    ELSE IF Upper(record.state) \in {<<"C","A">>, <<"F","L">>, <<"N","Y">>}
    THEN [corporate_name |-> record.franchisee,
          franchisee_owner |-> CleanBusinessName(record.franchisee)]
    ELSE [corporate_name |-> record.franchisee,
          franchisee_owner |-> record.franchisee]

\* the URL _enrich_from_business_registry appends to self.source_urls with that dict
url_business_registry(record) ==
    IF Upper(record.state) = S_TX THEN <<"https://sos.texas.gov/corp/sosda/">>
    ELSE IF Upper(record.state) \in {<<"C","A">>, <<"F","L">>, <<"N","Y">>}
    THEN <<"https://sos.">> \o Lower(record.state) \o <<".gov/">>
    ELSE <<"https://opencorporates.com/">>

\* _enrich_from_google_places
enrich_from_google_places(record) ==
    LET business_name == CleanBusinessName(record.franchisee)
        data == [corporate_phone |-> record.phone,
                 corporate_address |-> S_Verified \o S_Sp
                     \o FormatAddress(record.address, record.city, record.state, record.zip)]
    IN  IF Contains(Upper(record.franchisee), U_LLC) \/ Contains(Upper(record.franchisee), U_INC)
        THEN data @@ [corporate_email |->
                 <<"i","n","f","o","@">>
                 \o Take(Lower(SelectSeq(business_name, IsAlnum)), 10)
                 \o <<".","c","o","m">>]
        ELSE data

\* _enrich_from_linkedin
enrich_from_linkedin(record, entity_type) ==
    IF entity_type = "individual"
    THEN LET fl == parse_individual_name(record.franchisee)
         IN IF fl[1] # <<>> /\ fl[2] # <<>>
            THEN [franchisee_owner |-> fl[1] \o S_Sp \o fl[2],
                  linkedin |-> S_LinkedinWww \o <<"/","i","n","/">>
                      \o Replace(Lower(fl[1]) \o S_Dash \o Lower(fl[2]), S_Sp, S_Dash)]
            ELSE << >>
    ELSE IF entity_type = "business"
    THEN [linkedin |-> S_LinkedinWww \o <<"/","c","o","m","p","a","n","y","/">>
                       \o CompanySlug(CleanBusinessName(record.franchisee)),
          franchisee_owner |-> CleanBusinessName(record.franchisee)]
    ELSE << >>

\* _enrich_from_corporate_database
enrich_from_corporate_database(record, entity_type) ==
    IF entity_type # "business" THEN << >>
    ELSE IF Contains(Upper(record.franchisee), U_LLC)
    THEN [corporate_name |-> record.franchisee,
          corporate_address |-> <<"R","e","g","i","s","t","e","r","e","d"," ","A","g","e","n","t",":"," ">>
                                \o record.city \o S_CommaSp \o record.state]
    ELSE [corporate_name |-> record.franchisee]

\* What the coroutine of one source returns when it does not fail
SourceData(source, record, entity_type) ==
    CASE source = "business_registry" -> enrich_from_business_registry(record, entity_type)
      [] source = "google_places" -> enrich_from_google_places(record)
      [] source = "linkedin" -> enrich_from_linkedin(record, entity_type)
      [] source = "corporate_database" -> enrich_from_corporate_database(record, entity_type)

\* The URL that coroutine appends to self.source_urls (only with a non-empty dict)
SourceUrl(source, record) ==
    CASE source = "business_registry" -> url_business_registry(record)
      [] source = "google_places" -> <<"https://maps.googleapis.com/maps/api/place/">>
      [] source = "linkedin" -> <<"https://www.linkedin.com/search/">>
      [] source = "corporate_database" -> <<"https://opencorporates.com/api/">>

ENRICHMENT_FIELDS ==
    {"franchisee_owner", "corporate_name", "corporate_address",
     "corporate_phone", "corporate_email", "linkedin"}

\* EnrichedFranchiseeRecord(**asdict(record)): the original fields and the defaults
NewEnriched(record) ==
    record @@ [franchisee_owner |-> <<>>, corporate_name |-> <<>>, corporate_address |-> <<>>,
               corporate_phone |-> <<>>, corporate_email |-> <<>>, linkedin |-> <<>>,
               url_sources |-> <<>>, confidence_score |-> 0, enrichment_sources_used |-> 0,
               data_quality_score |-> 0]

\* A variant of the merge in which every non-empty source value replaces the current one.
MergeField_last_wins(key, current_value, data) ==
    IF key \in DOMAIN data /\ data[key] # <<>> THEN data[key] ELSE current_value

\* _merge_enrichment_data for one key: the value the field holds afterwards
MergeField(key, current_value, data) ==
    IF key \in DOMAIN data /\ data[key] # <<>>
    THEN IF current_value = <<>> THEN data[key]
         ELSE IF key = "corporate_address" /\ Contains(data[key], S_Verified) THEN data[key]
         ELSE IF key = "corporate_phone" /\ Len(data[key]) > Len(current_value) THEN data[key]
         ELSE current_value
    ELSE current_value

\* _merge_enrichment_data, for the enrichment fields (the keys the sources return)
merge_enrichment_data(enriched, data) ==
    [enriched EXCEPT
        !.franchisee_owner = MergeField("franchisee_owner", @, data),
        !.corporate_name = MergeField("corporate_name", @, data),
        !.corporate_address = MergeField("corporate_address", @, data),
        !.corporate_phone = MergeField("corporate_phone", @, data),
        !.corporate_email = MergeField("corporate_email", @, data),
        !.linkedin = MergeField("linkedin", @, data)]

RECURSIVE MergeAll(_, _)
\* for result in enrichment_results: self._merge_enrichment_data(enriched, result)
MergeAll(enriched, results) ==
    IF results = <<>> THEN enriched
    ELSE MergeAll(merge_enrichment_data(enriched, Head(results)), Tail(results))

\* field weights of _calculate_production_confidence_score, in tenths
FieldWeight10(field) ==
    CASE field = "franchisee_owner" -> 12
      [] field = "corporate_name" -> 10
      [] field = "corporate_address" -> 10
      [] field = "corporate_phone" -> 8
      [] field = "corporate_email" -> 8
      [] field = "linkedin" -> 7

RECURSIVE SumWeights(_)
SumWeights(fields) ==
    IF fields = {} THEN 0
    ELSE LET f == CHOOSE x \in fields : TRUE
         IN FieldWeight10(f) + SumWeights(fields \ {f})

\* _calculate_production_confidence_score, in thousandths:
\* round(min(1.0, completion*0.7 + entity_confidence*0.2 + min(0.1, used*0.02)), 3).
\* On the scale 55000 = 1.0: completion*0.7 is 700*base/55 tenths, and so on.
calculate_production_confidence_score(enriched, entity_confidence) ==
    LET base10 == SumWeights({f \in ENRICHMENT_FIELDS : enriched[f] # <<>>})
        final == (base10 * 700) + (110 * entity_confidence)
                 + (550 * Min(10, enriched.enrichment_sources_used * 2))
    IN  (Min(55000, final) * 1000 + 27500) \div 55000

\* _calculate_data_quality_score, in hundredths
calculate_data_quality_score(enriched) ==
    LET q == 100
             - (IF enriched.corporate_phone # <<>> /\ Len(Digits(enriched.corporate_phone)) < 10
                THEN 10 ELSE 0)
             - (IF enriched.corporate_email # <<>>
                   /\ (~Contains(enriched.corporate_email, <<"@">>)
                       \/ ~Contains(enriched.corporate_email, <<".">>))
                THEN 10 ELSE 0)
             - (IF enriched.linkedin # <<>>
                   /\ ~StartsWith(enriched.linkedin, S_LinkedinBare)
                   /\ ~StartsWith(enriched.linkedin, S_LinkedinWww)
                THEN 5 ELSE 0)
             - (IF enriched.franchisee_owner = <<>> THEN 20 ELSE 0)
             - (IF enriched.corporate_address = <<>> THEN 10 ELSE 0)
    IN  Max(0, q)

(***************************************************************************)
(* Agentic pipeline: pure functions                                        *)
(***************************************************************************)
AGENT_BUSINESS_INDICATORS ==
    << <<"L","L","C">>, <<"I","N","C">>, <<"C","O","R","P">>, <<"L","T","D">>, <<"L","P">>,
       <<"C","O","M","P","A","N","Y">>, <<"E","N","T","E","R","P","R","I","S","E","S">> >>

AGENT_INDIVIDUAL_PATTERNS == << <<",">>, <<"J","R">>, <<"S","R">>, <<"I","I","I">> >>

\* record.get("Franchisee", record.get("franchisee", ""))
FranchiseeOf(record) ==
    IF "Franchisee" \in DOMAIN record THEN record["Franchisee"]
    ELSE IF "franchisee" \in DOMAIN record THEN record["franchisee"]
    ELSE <<>>

\* _classify_entity_node raises AttributeError (franchisee_name.upper()) on a non-str name
classify_entity_node_raises(record) == ~IsStr(FranchiseeOf(record))

\* A variant of the node that tests the 'Last, First' rule before the business rule.
classify_entity_node_comma_first(record) ==
    LET franchisee_name == FranchiseeOf(record)
        business_score == CountIn(AGENT_BUSINESS_INDICATORS, Upper(franchisee_name))
        individual_score == CountIn(AGENT_INDIVIDUAL_PATTERNS, franchisee_name)
        has_comma == Contains(franchisee_name, <<",">>)
        word_count == Len(Split(franchisee_name))
    IN  IF has_comma /\ word_count = 2
        THEN [type |-> "individual", confidence |-> 90,
              reasoning |-> "Individual detected: 'Last, First' format",
              business_indicators |-> business_score, individual_indicators |-> individual_score]
        ELSE IF business_score > 0
        THEN [type |-> "business", confidence |-> Min(95, 70 + business_score * 10),
              reasoning |-> "Business entity detected",
              business_indicators |-> business_score, individual_indicators |-> individual_score]
        ELSE IF word_count = 2
        THEN [type |-> "individual", confidence |-> 80,
              reasoning |-> "Individual detected: Two-word name, no business indicators",
              business_indicators |-> business_score, individual_indicators |-> individual_score]
        ELSE [type |-> "business", confidence |-> 60,
              reasoning |-> "Default to business: Ambiguous case",
              business_indicators |-> business_score, individual_indicators |-> individual_score]

\* _classify_entity_node: the classification; confidence in hundredths
classify_entity_node(record) ==
    LET franchisee_name == FranchiseeOf(record)
        business_score == CHOOSE n \in {CountIn(AGENT_BUSINESS_INDICATORS, Upper(franchisee_name))} : TRUE
        individual_score == CountIn(AGENT_INDIVIDUAL_PATTERNS, franchisee_name)
        has_comma == Contains(franchisee_name, <<",">>)
        word_count == Len(Split(franchisee_name))
    IN  IF business_score > 0
        THEN [type |-> "business", confidence |-> Min(95, 70 + business_score * 10),
              reasoning |-> "Business entity detected",
              business_indicators |-> business_score, individual_indicators |-> individual_score]
        ELSE IF has_comma /\ word_count = 2
        THEN [type |-> "individual", confidence |-> 90,
              reasoning |-> "Individual detected: 'Last, First' format",
              business_indicators |-> business_score, individual_indicators |-> individual_score]
        ELSE IF word_count = 2 /\ business_score = 0
        THEN [type |-> "individual", confidence |-> 80,
              reasoning |-> "Individual detected: Two-word name, no business indicators",
              business_indicators |-> business_score, individual_indicators |-> individual_score]
        ELSE [type |-> "business", confidence |-> 60,
              reasoning |-> "Default to business: Ambiguous case",
              business_indicators |-> business_score, individual_indicators |-> individual_score]

\* _plan_enrichment_strategy raises on a business record whose "state" is missing
\* (KeyError) or not a str (AttributeError on .upper())
plan_enrichment_strategy_raises(classification, record) ==
    /\ classification.type = "business"
    /\ ("state" \notin DOMAIN record \/ ~IsStr(record["state"]))

\* A variant of the planner that compares the state with "TX" as it is written.
plan_enrichment_strategy_exact_case(classification, record) ==
    IF classification.type = "business"
    THEN [primary_sources |-> <<"business_registry", "google_places">>,
          fallback_sources |-> <<"corporate_database", "linkedin_company">>,
          confidence_threshold |-> IF record["state"] = S_TX THEN 80 ELSE 70,
          max_sources |-> 4,
          reasoning |-> IF record["state"] = S_TX
                        THEN "Texas business registry provides high-quality data"
                        ELSE "Standard business enrichment strategy"]
    ELSE [primary_sources |-> <<"linkedin_individual", "google_search">>,
          fallback_sources |-> <<"people_search", "social_media">>,
          confidence_threshold |-> 70,
          max_sources |-> 4,
          reasoning |-> "Individual-focused enrichment strategy"]

\* _plan_enrichment_strategy: the strategy; confidence_threshold in hundredths
plan_enrichment_strategy(classification, record) ==
    IF classification.type = "business"
    THEN [primary_sources |-> <<"business_registry", "google_places">>,
          fallback_sources |-> <<"corporate_database", "linkedin_company">>,
          confidence_threshold |-> IF Upper(record["state"]) = S_TX THEN 80 ELSE 70,
          max_sources |-> 4,
          reasoning |-> IF Upper(record["state"]) = S_TX
                        THEN "Texas business registry provides high-quality data"
                        ELSE "Standard business enrichment strategy"]
    ELSE [primary_sources |-> <<"linkedin_individual", "google_search">>,
          fallback_sources |-> <<"people_search", "social_media">>,
          confidence_threshold |-> 70,
          max_sources |-> 4,
          reasoning |-> "Individual-focused enrichment strategy"]

ADDRESS_KEYS == {"address", "city", "state", "zip"}

\* the record keys a simulated source reads with record[...]: a missing one is a KeyError
KeysRead(source) ==
    CASE source = "business_registry" -> {"franchisee"} \cup ADDRESS_KEYS
      [] source = "google_places" -> {"franchisee", "phone"} \cup ADDRESS_KEYS
      [] source = "google_search" -> ADDRESS_KEYS
      [] source \in {"corporate_database", "linkedin_company"} -> {"franchisee"}
      [] OTHER -> {}

call_source_raises(source, record) == ~(KeysRead(source) \subseteq DOMAIN record)

\* _call_enrichment_source (simulated for demo); source_confidence in hundredths
call_enrichment_source(source, record) ==
    LET franchisee_name == record["franchisee"]
    IN  CASE source = "business_registry" ->
               [corporate_name |-> franchisee_name,
                corporate_address |-> <<"R","e","g","i","s","t","e","r","e","d",":"," ">>
                    \o FormatAddress(record["address"], record["city"], record["state"], record["zip"]),
                franchisee_owner |-> CleanBusinessName(franchisee_name),
                source_confidence |-> 90]
          [] source = "google_places" ->
               [corporate_phone |-> record["phone"],
                corporate_address |-> S_Verified \o S_Sp
                    \o FormatAddress(record["address"], record["city"], record["state"], record["zip"]),
                corporate_email |-> <<"i","n","f","o","@">>
                    \o Take(Replace(Replace(Lower(franchisee_name), S_Sp, <<>>), <<",">>, <<>>), 8)
                    \o <<".","c","o","m">>,
                source_confidence |-> 80]
          [] source = "corporate_database" ->
               [corporate_name |-> franchisee_name,
                linkedin |-> S_LinkedinWww \o <<"/","c","o","m","p","a","n","y","/">>
                    \o Replace(Replace(Lower(franchisee_name), S_Sp, S_Dash), <<",">>, <<>>),
                source_confidence |-> 70]
          [] OTHER -> << >>

\* A variant of the name parsing that keeps the parts of a "Last, First" name in the
\* order they are written.
IndividualNames_as_written(franchisee_name) ==
    IF Contains(franchisee_name, <<",">>)
    THEN LET parts == SplitComma(franchisee_name)
             rest == Strip(parts[2])
         IN <<Strip(parts[1]), IF rest # <<>> THEN Split(rest)[1] ELSE <<>>>>
    ELSE LET parts == Split(franchisee_name)
         IN <<IF parts # <<>> THEN parts[1] ELSE <<>>,
              IF Len(parts) > 1 THEN Join(Tail(parts), S_Sp) ELSE <<>>>>

\* the name parsing at the head of _execute_individual_enrichment: <<first_name, last_name>>
IndividualNames(franchisee_name) ==
    IF Contains(franchisee_name, <<",">>)
    THEN LET parts == SplitComma(franchisee_name)
             rest == Strip(parts[2])
         IN <<IF rest # <<>> THEN Split(rest)[1] ELSE <<>>, Strip(parts[1])>>
    ELSE LET parts == Split(franchisee_name)
         IN <<IF parts # <<>> THEN parts[1] ELSE <<>>,
              IF Len(parts) > 1 THEN Join(Tail(parts), S_Sp) ELSE <<>>>>

\* _call_individual_enrichment_source
call_individual_enrichment_source(source, record, first_name, last_name) ==
    CASE source = "linkedin_individual" ->
           [franchisee_owner |-> first_name \o S_Sp \o last_name,
            linkedin |-> S_LinkedinWww \o <<"/","i","n","/">>
                \o Replace(Lower(first_name) \o S_Dash \o Lower(last_name), S_Sp, S_Dash),
            source_confidence |-> 85]
      [] source = "google_search" ->
           [franchisee_owner |-> first_name \o S_Sp \o last_name,
            corporate_address |-> FormatAddress(record["address"], record["city"],
                                                record["state"], record["zip"]),
            source_confidence |-> 75]
      [] OTHER -> << >>

\* What a source call of the workflow gives back. "simulated" is the shipped source;
\* "unrated" is a source that does not declare source_confidence (the engine then uses
\* its default); "nothing" is a source with no data for the record (`if result:`).
ReplyKinds == {"simulated", "unrated", "nothing"}

Reply(kind, simulated) ==
    IF kind = "simulated" \/ simulated = << >> THEN simulated
    ELSE IF kind = "unrated"
    THEN [f \in DOMAIN simulated \ {"source_confidence"} |-> simulated[f]]
    ELSE << >>

META_KEYS == {"source", "priority", "source_confidence"}

\* result.get("source_confidence", default)
SourceConfidence(result, default) ==
    IF "source_confidence" \in DOMAIN result THEN result["source_confidence"] ELSE default

\* A variant of the append that puts the newest result first.
AppendResult_front(enrichment_results, entry) == <<entry>> \o enrichment_results

\* state["enrichment_results"].append({**result, "source": source, "priority": ...})
AppendResult(enrichment_results, entry) == Append(enrichment_results, entry)

\* The loop over a list of sources in an execute node: every non-empty result is appended
\* to enrichment_results, its source to data_sources_attempted, its confidence to
\* confidence_scores. replies[k] is the dict the k-th source call returned.
RECURSIVE FoldReplies(_, _, _, _, _, _)
FoldReplies(st, sources, replies, priority, default, k) ==
    IF k > Len(sources) THEN st
    ELSE FoldReplies(
            IF replies[k] # << >>
            THEN [st EXCEPT
                    !.enrichment_results =
                        AppendResult(@, replies[k] @@ [source |-> sources[k], priority |-> priority]),
                    !.data_sources_attempted = Append(@, sources[k]),
                    !.confidence_scores = Append(@, SourceConfidence(replies[k], default))]
            ELSE st,
            sources, replies, priority, default, k + 1)

\* avg_confidence < strategy["confidence_threshold"], avg being 0 with no score
\* (hundredths; sum/len < threshold is compared as sum < threshold*len)
NeedsFallback(confidence_scores, confidence_threshold) ==
    IF confidence_scores = <<>> THEN 0 < confidence_threshold
    ELSE SumSeq(confidence_scores) < confidence_threshold * Len(confidence_scores)

\* the fields of a result that fusion reads: not the bookkeeping keys, and truthy
DataFields(result) == {f \in DOMAIN result \ META_KEYS : result[f] # <<>>}

\* aggregated_data of _validate_and_score_results: per field, the values in result order
AggregatedFields(results) == UNION {DataFields(results[k]) : k \in 1..Len(results)}

RECURSIVE AggregatedValues(_, _)
AggregatedValues(results, field) ==
    IF results = <<>> THEN <<>>
    ELSE (IF field \in DataFields(Head(results)) THEN <<Head(results)[field]>> ELSE <<>>)
         \o AggregatedValues(Tail(results), field)

\* field_sources of _validate_and_score_results
RECURSIVE FieldSources(_, _)
FieldSources(results, field) ==
    IF results = <<>> THEN <<>>
    ELSE (IF field \in DataFields(Head(results)) THEN <<Head(results)["source"]>> ELSE <<>>)
         \o FieldSources(Tail(results), field)

\* A variant of field_consistency that subtracts every distinct value, the first included.
FieldConsistency_every_distinct(values) ==
    5040 - (5040 * Cardinality(Seq2Set(values))) \div Max(1, Len(values) - 1)

\* A variant of field_consistency that divides by the number of values.
FieldConsistency_by_total(values) ==
    5040 - (5040 * (Cardinality(Seq2Set(values)) - 1)) \div Max(1, Len(values))

\* field_consistency of _calculate_consistency_score, 5040 = 1.0 (a scale every
\* quotient of up to four values and eight fields divides)
FieldConsistency(values) ==
    5040 - (5040 * (Cardinality(Seq2Set(values)) - 1)) \div Max(1, Len(values) - 1)

RECURSIVE SumConsistency(_, _)
SumConsistency(results, fields) ==
    IF fields = {} THEN 0
    ELSE LET f == CHOOSE x \in fields : TRUE
         IN FieldConsistency(AggregatedValues(results, f)) + SumConsistency(results, fields \ {f})

\* _calculate_consistency_score, 5040 = 1.0
calculate_consistency_score(results) ==
    IF AggregatedFields(results) = {} THEN 0
    ELSE SumConsistency(results, AggregatedFields(results))
         \div Cardinality(AggregatedFields(results))

SeqMin(q) == CHOOSE x \in Seq2Set(q) : \A y \in Seq2Set(q) : x <= y

SeqMax(q) == CHOOSE x \in Seq2Set(q) : \A y \in Seq2Set(q) : x >= y

\* quality_metrics of _validate_and_score_results: data_consistency and
\* field_completeness with 5040 = 1.0, source_diversity a count, confidence_stability
\* the pair <<min, max>> of the ratio min/max (<<0, 1>> with no score)
QualityMetrics(st) ==
    [data_consistency |-> calculate_consistency_score(st.enrichment_results),
     source_diversity |-> Cardinality(Seq2Set(st.data_sources_attempted)),
     field_completeness |-> 840 * Cardinality(AggregatedFields(st.enrichment_results)),
     confidence_stability |->
        IF st.confidence_scores = <<>> THEN <<0, 1>>
        ELSE <<SeqMin(st.confidence_scores), SeqMax(st.confidence_scores)>>]

\* list(set(values)): the distinct values in the order the hash table yields them,
\* which Python does not fix (str hashes are salted per process)
Orderings(S) == {q \in [1..Cardinality(S) -> S] : Seq2Set(q) = S}

\* A variant of the conflict test that takes every field with two contributions for a
\* conflict.
ConflictFields_two_contributions(results) ==
    {f \in AggregatedFields(results) : Len(AggregatedValues(results, f)) > 1}

ConflictFields(results) ==
    {f \in AggregatedFields(results) :
        Cardinality(Seq2Set(AggregatedValues(results, f))) > 1}

\* every conflicts dict _validate_and_score_results can build from the results
PossibleConflicts(results) ==
    {c \in [ConflictFields(results) ->
              [values : UNION {Orderings(Seq2Set(AggregatedValues(results, f))) :
                                  f \in ConflictFields(results)},
               sources : {FieldSources(results, f) : f \in ConflictFields(results)}]] :
        \A f \in ConflictFields(results) :
            /\ c[f].values \in Orderings(Seq2Set(AggregatedValues(results, f)))
            /\ c[f].sources = FieldSources(results, f)}

\* A variant of the registry rule that fails whenever more sources than distinct values
\* are listed.
resolve_raises_by_count(values, sources) ==
    IF \E k \in 1..Len(sources) : sources[k] = "business_registry"
    THEN Len(sources) > Len(values)
    ELSE IF \E k \in 1..Len(values) : Contains(values[k], S_Verified)
    THEN FALSE
    ELSE Len(values) < 2

\* _resolve_data_conflicts raises: values[registry_idx] past the end of values
\* (IndexError), or values[1] when a single value is listed
resolve_raises(values, sources) ==
    IF \E k \in 1..Len(sources) : sources[k] = "business_registry"
    THEN IndexIn(sources, "business_registry") > Len(values)
    ELSE IF \E k \in 1..Len(values) : Contains(values[k], S_Verified)
    THEN FALSE
    ELSE Len(values) < 2

\* max(values, key=len): the first value of maximal length
FirstLongest(values) ==
    values[CHOOSE k \in 1..Len(values) :
              /\ \A j \in 1..Len(values) : Len(values[j]) <= Len(values[k])
              /\ \A j \in 1..(k - 1) : Len(values[j]) < Len(values[k])]

\* a resolver without the verified-marker rule: registry, then the length comparison
resolve_value_length_only(values, sources) ==
    IF \E k \in 1..Len(sources) : sources[k] = "business_registry"
    THEN values[IndexIn(sources, "business_registry")]
    ELSE IF Len(values[1]) > Len(values[2])
    THEN FirstLongest(values)
    ELSE values[1]

\* _resolve_data_conflicts: resolved_value for one conflict
resolve_value(values, sources) ==
    IF \E k \in 1..Len(sources) : sources[k] = "business_registry"
    THEN values[IndexIn(sources, "business_registry")]
    ELSE IF \E k \in 1..Len(values) : Contains(values[k], S_Verified)
    THEN values[CHOOSE k \in 1..Len(values) :
                   /\ Contains(values[k], S_Verified)
                   /\ \A j \in 1..(k - 1) : ~Contains(values[j], S_Verified)]
    ELSE IF Len(values[1]) > Len(values[2])
    THEN FirstLongest(values)
    ELSE values[1]

\* resolved_data of _resolve_data_conflicts
ResolvedData(conflicts) ==
    [f \in DOMAIN conflicts |-> resolve_value(conflicts[f].values, conflicts[f].sources)]

\* A variant of the update that also records the resolver as the source of every result.
ApplyResolved_marks_source(results, resolved_data) ==
    [k \in 1..Len(results) |->
        [f \in DOMAIN results[k] |->
            IF f \in DOMAIN resolved_data THEN resolved_data[f]
            ELSE IF f = "source" THEN "resolver" ELSE results[k][f]]]

\* A variant of the update that writes the resolved values into the first result only.
ApplyResolved_first_only(results, resolved_data) ==
    [k \in 1..Len(results) |->
        [f \in DOMAIN results[k] |->
            IF k = 1 /\ f \in DOMAIN resolved_data THEN resolved_data[f] ELSE results[k][f]]]

\* "Update results with resolved conflicts" (lines 341-345)
ApplyResolved(results, resolved_data) ==
    [k \in 1..Len(results) |->
        [f \in DOMAIN results[k] |->
            IF f \in DOMAIN resolved_data THEN resolved_data[f] ELSE results[k][f]]]

\* final_data of _finalize_enrichment_result: per field the first truthy value
FinalData(results) ==
    [f \in AggregatedFields(results) |-> AggregatedValues(results, f)[1]]

\* source_urls of _finalize_enrichment_result
RECURSIVE ResultSources(_)
ResultSources(results) ==
    IF results = <<>> THEN <<>>
    ELSE <<Head(results)["source"]>> \o ResultSources(Tail(results))

\* A variant of agent_confidence with the weights of consistency and completeness
\* exchanged.
AgentConfidenceRaw_weights_exchanged(classification, quality_metrics) ==
    15120 * classification.confidence
    + 200 * quality_metrics.data_consistency
    + 300 * quality_metrics.field_completeness
    + 200 * Min(5040, 1680 * quality_metrics.source_diversity)

\* agent_confidence before rounding, 5040000 = 1.0
AgentConfidenceRaw(classification, quality_metrics) ==
    15120 * classification.confidence
    + 300 * quality_metrics.data_consistency
    + 200 * quality_metrics.field_completeness
    + 200 * Min(5040, 1680 * quality_metrics.source_diversity)

\* round(agent_confidence, 3), in thousandths
AgentConfidence(classification, quality_metrics) ==
    (AgentConfidenceRaw(classification, quality_metrics) + 2520) \div 5040

\* round(sum(quality_metrics.values()) / len(quality_metrics), 3), in thousandths
QualityScore(quality_metrics) ==
    LET mn == quality_metrics.confidence_stability[1]
        mx == quality_metrics.confidence_stability[2]
        num == (quality_metrics.data_consistency + 5040 * quality_metrics.source_diversity
                + quality_metrics.field_completeness) * mx + 5040 * mn
    IN  (250 * num + 2520 * mx) \div (5040 * mx)

\* final_result of _finalize_enrichment_result
FinalResult(st) ==
    [agent_confidence |-> AgentConfidence(st.entity_classification, st.quality_metrics),
     enrichment_strategy_used |-> st.enrichment_strategy.reasoning,
     data_sources_consulted |-> Len(st.data_sources_attempted),
     agent_reasoning |-> <<"Entity", st.entity_classification.type, "Sources",
                           Len(st.data_sources_attempted)>>,
     quality_score |-> QualityScore(st.quality_metrics),
     url_sources |-> ResultSources(st.enrichment_results)]
    @@ FinalData(st.enrichment_results) @@ st.record

\* AgenticEnrichmentResult: the required fields, and the fields with defaults
RESULT_REQUIRED ==
    {"fdd", "fdd_store_no", "fdd_location_name", "franchisee", "fdd_contact_name",
     "address", "city", "state", "zip", "phone"}

RESULT_DEFAULTS ==
    [franchisee_owner |-> <<>>, corporate_name |-> <<>>, corporate_address |-> <<>>,
     corporate_phone |-> <<>>, corporate_email |-> <<>>, linkedin |-> <<>>,
     url_sources |-> <<>>, agent_confidence |-> 0, enrichment_strategy_used |-> "",
     data_sources_consulted |-> 0, agent_reasoning |-> <<>>, workflow_execution_time |-> 0,
     quality_score |-> 0, processing_timestamp |-> <<>>, pipeline_version |-> "2.0-agentic"]

\* AgenticEnrichmentResult(**kwargs) raises TypeError: a required field is missing or a
\* key is no field of the dataclass
result_ctor_raises(kwargs) ==
    \/ ~(RESULT_REQUIRED \subseteq DOMAIN kwargs)
    \/ ~(DOMAIN kwargs \subseteq RESULT_REQUIRED \cup DOMAIN RESULT_DEFAULTS)

AgenticEnrichmentResult(kwargs) == kwargs @@ RESULT_DEFAULTS

\* the minimal result of the except branch of process_records_agentic (lines 532-538)
FailedResult(record, cause) ==
    AgenticEnrichmentResult(
        [agent_confidence |-> 0, enrichment_strategy_used |-> "Failed",
         agent_reasoning |-> <<"Error", cause>>] @@ record)

(***************************************************************************)
(* Bounds of the model and the inputs it enumerates                        *)
(***************************************************************************)
MaxRecords == 2
MaxBatchSize == 2
MaxConcurrent == 1
MaxRetries == 2

\* FranchiseeRecord samples: a Texas LLC, a "Last, First" person, and a record whose
\* franchisee is not a str (a dataclass enforces no types).
ProdSample(kind, no) ==
    [fdd_store_no |-> <<no>>,
     franchisee |-> CASE kind = "business" -> <<"A","c","e"," ","L","L","C">>
                      [] kind = "individual" -> <<"S","m","i","t","h",","," ","J","o","h","n">>
                      [] kind = "badname" -> NotAStr,
     address |-> <<"1"," ","E","l","m">>,
     city |-> <<"W","a","c","o">>,
     state |-> IF kind = "business" THEN <<"T","X">> ELSE <<"c","a">>,
     zip |-> <<"7","6","7">>,
     phone |-> IF kind = "business" THEN <<"2","5","4","-","5","5","5","-","0","1","0","0">>
               ELSE <<"5","5","5","-","0","1","0","1">>]

RecordKinds == {"business", "individual", "badname"}

RecordNos == <<"1", "2", "3", "4", "5">>

KindLists == UNION {[1..n -> RecordKinds] : n \in 0..MaxRecords}

ProdInputs == {[k \in DOMAIN kinds |-> ProdSample(kinds[k], RecordNos[k])] : kinds \in KindLists}

\* config.is_source_enabled(name) for the four sources: the configurations tried
EnabledChoices ==
    {{"business_registry", "google_places"}, {"google_places", "linkedin"},
     {"business_registry", "corporate_database"}}

\* sample_size: 0 stands for None (no limit)
SampleSizes == {0, MaxRecords - 1}

Configs ==
    [batch_size : 1..MaxBatchSize,
     max_concurrent_requests : {MaxConcurrent},
     max_retries : {1, MaxRetries},
     sample_size : SampleSizes,
     enabled : EnabledChoices]

(***************************************************************************)
(* State                                                                   *)
(***************************************************************************)
VARIABLES
    p_input,                 \* the list given to process_records
    config,                  \* self.config (immutable settings)
    records,                 \* process_records' local `records` (after the sample limit)
    pc,                      \* where process_records is: idle, gather, rate_sleep, returned
    i,                       \* the batch loop's index i (0-based, as in the code)
    frame,                   \* the enrich_record coroutine of each admitted record
    source_urls,             \* enricher.source_urls (one enricher for the whole run)
    enrichment_sources_used, \* enricher.enrichment_sources_used
    all_results,             \* process_records' all_results
    performance_metrics,     \* successful_enrichments / failed_enrichments
    awaits,                  \* history: per record, the source of every `await task` executed
    op_runs,                 \* history: per record, the source of every source operation run
    own_urls,                \* history: per record, the URLs its own source calls appended
    pauses,                  \* history: the rate-limit sleeps of the current call
    admitted,                \* history: the records admitted by all calls on the pipeline
    a_input,                 \* the list given to process_records_agentic
    a_pc,                    \* where process_records_agentic is: loop, workflow, returned, raised
    a_i,                     \* how many records the for loop has taken
    a_node,                  \* the workflow node to run next for the current record
    a_state,                 \* the EnrichmentState of the current record
    a_results,               \* process_records_agentic's results
    invoked,                 \* history: the source calls of the current record, in order
    visited,                 \* history: the workflow nodes run for the current record, in order
    hash_order,              \* the order list(set(values)) gave each list so far in this process
    rs_input,                \* fusion and resolve on their own: the source results given
    rs_pc,                   \* per run: the stage to run next (validate, resolve, ...)
    rs_state,                \* per run: enrichment_results, conflicts, resolved_data
    rs_calls,                \* per run: how many times resolve was invoked
    c_record,                \* classification and planning on their own: the record given
    c_pc,                    \* per classifier: where it is (classify, plan, returned, raised)
    c_out,                   \* per classifier: what it returned
    m_enriched,              \* the merge on its own: the enriched record merged into
    m_data,                  \* the source result merged last
    m_k                      \* how many source results were merged

prodVars == <<p_input, config, records, pc, i, frame, source_urls, enrichment_sources_used,
              all_results, performance_metrics, awaits, op_runs, own_urls, pauses, admitted>>

agentVars == <<a_input, a_pc, a_i, a_node, a_state, a_results, invoked, visited, hash_order>>

resolveVars == <<rs_input, rs_pc, rs_state, rs_calls>>

classifyVars == <<c_record, c_pc, c_out>>

mergeVars == <<m_enriched, m_data, m_k>>

vars == <<prodVars, agentVars, resolveVars, classifyVars, mergeVars>>

(***************************************************************************)
(* Production pipeline: enrich_record and _execute_enrichment_tasks        *)
(***************************************************************************)
\* tasks of _execute_enrichment_tasks: the enabled sources in the fixed order
EnabledTasks(enabled) == SelectSeq(SOURCE_ORDER, LAMBDA s : s \in enabled)

\* enrich_record after _execute_enrichment_tasks returned: merge, metrics, scores
FinishEnriched(record, entity, results, urls, used) ==
    LET merged == MergeAll(NewEnriched(record), results)
        e1 == [merged EXCEPT !.enrichment_sources_used = used,
                             !.url_sources = Join(urls, <<"; ">>)]
        e2 == [e1 EXCEPT !.confidence_score =
                   calculate_production_confidence_score(e1, entity.confidence)]
    IN  [e2 EXCEPT !.data_quality_score = calculate_data_quality_score(e2)]

\* enrich_record from its first line to its first suspension (inside the first source
\* call): classification, or the exception classify_entity raises; with no task, or with
\* range(max_retries) empty, no source is awaited and the record runs to its end
StartFrame(record, cfg) ==
    IF classify_entity_raises(record.franchisee)
    THEN [pc |-> "failed", tasks |-> <<>>, k |-> 0, attempt |-> 0, finished |-> FALSE,
          entity |-> <<>>, results |-> <<>>, gave_up |-> <<>>, enriched |-> <<>>]
    ELSE IF cfg.max_retries <= 0 \/ EnabledTasks(cfg.enabled) = <<>>
    THEN [pc |-> "done", tasks |-> EnabledTasks(cfg.enabled), k |-> 0, attempt |-> 0,
          finished |-> FALSE, entity |-> classify_entity(record.franchisee),
          results |-> <<>>, gave_up |-> <<>>,
          enriched |-> FinishEnriched(record, classify_entity(record.franchisee),
                                      <<>>, <<>>, 0)]
    ELSE [pc |-> "in_source", tasks |-> EnabledTasks(cfg.enabled), k |-> 1, attempt |-> 0,
          finished |-> FALSE, entity |-> classify_entity(record.franchisee),
          results |-> <<>>, gave_up |-> <<>>, enriched |-> <<>>]

\* The task loop moves on: the next task's coroutine is awaited, or, after the last
\* task, enrich_record runs to its end.
NextTask(fr, record, urls, used) ==
    IF fr.k < Len(fr.tasks)
    THEN [fr EXCEPT !.k = @ + 1, !.attempt = 0, !.finished = FALSE, !.pc = "in_source"]
    ELSE [fr EXCEPT !.pc = "done",
                    !.enriched = FinishEnriched(record, fr.entity, fr.results, urls, used)]

\* A variant of the except branch that sleeps and retries once more than max_retries
\* allows.
AfterFailure_one_more(fr, record, cfg, urls, used) ==
    IF fr.attempt < cfg.max_retries
    THEN [fr EXCEPT !.pc = "sleeping", !.finished = TRUE]
    ELSE NextTask([fr EXCEPT !.finished = TRUE, !.gave_up = Append(@, fr.tasks[fr.k])],
                  record, urls, used)

\* A variant of the except branch that lets the last failure of a source end the
\* record instead of going on to the next task.
AfterFailure_propagates(fr, record, cfg, urls, used) ==
    IF fr.attempt < cfg.max_retries - 1
    THEN [fr EXCEPT !.pc = "sleeping", !.finished = TRUE]
    ELSE [fr EXCEPT !.pc = "failed", !.finished = TRUE, !.gave_up = Append(@, fr.tasks[fr.k])]

\* except Exception: sleep before the next attempt, or give the task up after the last
\* ("All enrichment attempts failed for task", recorded in gave_up)
AfterFailure(fr, record, cfg, urls, used) ==
    IF fr.attempt < cfg.max_retries - 1
    THEN [fr EXCEPT !.pc = "sleeping", !.finished = TRUE]
    ELSE NextTask([fr EXCEPT !.finished = TRUE, !.gave_up = Append(@, fr.tasks[fr.k])],
                  record, urls, used)

\* history of the awaits and source runs a frame change starts
Started(old, new) ==
    IF new.pc = "in_source" /\ (old.pc # "in_source" \/ old.k # new.k)
    THEN <<new.tasks[new.k]>> ELSE <<>>

\* line 238, `result = await task`, returns: the source's dict; a non-empty one is kept
\* and counted (the source appended its URL before returning it)
source_returns(r) ==
    /\ UNCHANGED <<agentVars, resolveVars, classifyVars, mergeVars>>
    /\ pc = "gather"
    /\ r \in DOMAIN frame
    /\ frame[r].pc = "in_source"
    /\ \E data \in {SourceData(frame[r].tasks[frame[r].k], records[r], frame[r].entity.type)} :
       LET fr == frame[r]
           source == fr.tasks[fr.k]
           urls == IF data # <<>> THEN Append(source_urls, SourceUrl(source, records[r]))
                   ELSE source_urls
           used == IF data # <<>> THEN enrichment_sources_used + 1
                   ELSE enrichment_sources_used
           kept == IF data # <<>> THEN [fr EXCEPT !.results = Append(@, data)] ELSE fr
           new == NextTask(kept, records[r], urls, used)
       IN  /\ frame' = [frame EXCEPT ![r] = new]
           /\ source_urls' = urls
           /\ enrichment_sources_used' = used
           /\ own_urls' = [own_urls EXCEPT ![r] =
                   IF data # <<>> THEN Append(@, SourceUrl(source, records[r])) ELSE @]
           /\ awaits' = [awaits EXCEPT ![r] = @ \o Started(fr, frame'[r])]
           /\ op_runs' = [op_runs EXCEPT ![r] = @ \o Started(fr, frame'[r])]
    /\ UNCHANGED <<p_input, config, records, pc, i, all_results, performance_metrics>>
    /\ UNCHANGED <<pauses, admitted>>

\* line 238 raises: the source operation failed (lines 243-248)
source_raises(r) ==
    /\ UNCHANGED <<agentVars, resolveVars, classifyVars, mergeVars>>
    /\ pc = "gather"
    /\ r \in DOMAIN frame
    /\ frame[r].pc = "in_source"
    /\ LET fr == frame[r]
           new == AfterFailure(fr, records[r], config, source_urls, enrichment_sources_used)
       IN  /\ frame' = [frame EXCEPT ![r] = new]
           /\ awaits' = [awaits EXCEPT ![r] = @ \o Started(fr, frame'[r])]
           /\ op_runs' = [op_runs EXCEPT ![r] = @ \o Started(fr, frame'[r])]
    /\ UNCHANGED <<p_input, config, records, pc, i, source_urls, enrichment_sources_used,
                   all_results, performance_metrics, own_urls, pauses, admitted>>

\* asyncio.sleep(retry_delay_seconds) is over: the next attempt awaits the SAME coroutine
\* object again (line 238). A coroutine that has finished cannot be awaited again:
\* Python raises RuntimeError at once, and the source operation does not run.
retry_wake(r) ==
    /\ UNCHANGED <<agentVars, resolveVars, classifyVars, mergeVars>>
    /\ pc = "gather"
    /\ r \in DOMAIN frame
    /\ frame[r].pc = "sleeping"
    /\ LET fr == [frame[r] EXCEPT !.attempt = @ + 1]
           new == AfterFailure(fr, records[r], config, source_urls, enrichment_sources_used)
       IN  /\ frame' = [frame EXCEPT ![r] = new]
           /\ awaits' = [awaits EXCEPT ![r] = Append(@, fr.tasks[fr.k]) \o Started(fr, frame'[r])]
           /\ op_runs' = [op_runs EXCEPT ![r] = @ \o Started(fr, frame'[r])]
    /\ UNCHANGED <<p_input, config, records, pc, i, source_urls, enrichment_sources_used,
                   all_results, performance_metrics, own_urls, pauses, admitted>>

(***************************************************************************)
(* Production pipeline: process_records                                    *)
(***************************************************************************)
\* A variant of the slice that takes one record more than batch_size.
BatchOf_one_more(i0, recs, cfg) == (i0 + 1)..Min(i0 + cfg.batch_size + 1, Len(recs))

\* batch = records[i0 : i0 + batch_size], as indices 1..Len(records)
BatchOf(i0, recs, cfg) == (i0 + 1)..Min(i0 + cfg.batch_size, Len(recs))

\* tasks = [enricher.enrich_record(record) for record in batch]; asyncio.gather(...):
\* every coroutine of the batch runs to its first suspension, in order, each one
\* resetting the enricher's fields (lines 174-176).
StartBatch(i0, recs) ==
    /\ frame' = [r \in 1..Len(recs) |->
                    IF r \in BatchOf(i0, recs, config) THEN StartFrame(recs[r], config)
                    ELSE IF r \in DOMAIN frame THEN frame[r]
                    ELSE [pc |-> "pending", tasks |-> <<>>, k |-> 0, attempt |-> 0,
                          finished |-> FALSE, entity |-> <<>>, results |-> <<>>,
                          gave_up |-> <<>>, enriched |-> <<>>]]
    /\ source_urls' = <<>>
    /\ enrichment_sources_used' = 0
    /\ awaits' = [r \in 1..Len(recs) |->
                    IF r \in BatchOf(i0, recs, config)
                    THEN (IF frame'[r].pc = "in_source" THEN <<frame'[r].tasks[1]>> ELSE <<>>)
                    ELSE IF r \in DOMAIN awaits THEN awaits[r] ELSE <<>>]
    /\ op_runs' = [r \in 1..Len(recs) |->
                    IF r \in BatchOf(i0, recs, config)
                    THEN (IF frame'[r].pc = "in_source" THEN <<frame'[r].tasks[1]>> ELSE <<>>)
                    ELSE IF r \in DOMAIN op_runs THEN op_runs[r] ELSE <<>>]
    /\ own_urls' = [r \in 1..Len(recs) |->
                    IF r \in DOMAIN own_urls /\ r \notin BatchOf(i0, recs, config)
                    THEN own_urls[r] ELSE <<>>]

\* records[:sample_size] when sample_size is set and exceeded (lines 523-526)
Admitted(input, cfg) ==
    IF cfg.sample_size # 0 /\ Len(input) > cfg.sample_size
    THEN SubSeq(input, 1, cfg.sample_size) ELSE input

\* process_records is called: sample limit, then the first batch is gathered; with no
\* record the batch loop is empty and the call returns at once.
process_records_begin ==
    /\ UNCHANGED <<agentVars, resolveVars, classifyVars, mergeVars>>
    /\ pc = "idle"
    /\ records' = Admitted(p_input, config)
    /\ i' = 0
    /\ IF Admitted(p_input, config) = <<>>
       THEN /\ pc' = "returned"
            /\ UNCHANGED <<frame, source_urls, enrichment_sources_used, awaits, op_runs,
                           own_urls>>
       ELSE /\ pc' = "gather"
            /\ StartBatch(0, Admitted(p_input, config))
    /\ pauses' = 0
    /\ admitted' = admitted + Len(Admitted(p_input, config))
    /\ UNCHANGED <<p_input, config, all_results, performance_metrics>>

BatchFinished == \A r \in BatchOf(i, records, config) : frame[r].pc \in {"done", "failed"}

\* the successful results of the batch, in batch order (lines 546-553)
RECURSIVE SuccessfulResults(_, _)
SuccessfulResults(lo, hi) ==
    IF lo > hi THEN <<>>
    ELSE (IF frame[lo].pc = "done" THEN <<frame[lo].enriched>> ELSE <<>>)
         \o SuccessfulResults(lo + 1, hi)

\* A variant of the rate-limit test that also sleeps after a batch that ends the list.
MoreBatches_inclusive(i0, recs, cfg) == i0 + cfg.batch_size <= Len(recs)

\* `if i + batch_size < len(records)` (line 563): another batch follows
MoreBatches(i0, recs, cfg) == i0 + cfg.batch_size < Len(recs)

\* A variant of the counting that stores the counts of the batch instead of adding them.
CountBatch_overwrites(metrics, ok, failed) ==
    [successful_enrichments |-> ok, failed_enrichments |-> failed]

\* the `+= 1` of lines 550 and 553 over one batch's results
CountBatch(metrics, ok, failed) ==
    [successful_enrichments |-> metrics.successful_enrichments + ok,
     failed_enrichments |-> metrics.failed_enrichments + failed]

\* asyncio.gather(*tasks, return_exceptions=True) returned: lines 545-564 and, after the
\* last batch, 566-570
gather_done ==
    /\ UNCHANGED <<agentVars, resolveVars, classifyVars, mergeVars>>
    /\ pc = "gather"
    /\ BatchFinished
    /\ LET batch == BatchOf(i, records, config)
           failed == Cardinality({r \in batch : frame[r].pc = "failed"})
           ok == Cardinality({r \in batch : frame[r].pc = "done"})
       IN  /\ performance_metrics' = CountBatch(performance_metrics, ok, failed)
           /\ all_results' = all_results \o SuccessfulResults(i + 1, Min(i + config.batch_size, Len(records)))
    /\ pc' = IF MoreBatches(i, records, config) THEN "rate_sleep" ELSE "returned"
    /\ pauses' = IF MoreBatches(i, records, config) THEN pauses + 1 ELSE pauses
    /\ UNCHANGED <<p_input, config, records, i, frame, source_urls, enrichment_sources_used,
                   awaits, op_runs, own_urls, admitted>>

\* asyncio.sleep(rate_limit_delay_seconds) is over: the next batch is gathered
rate_limit_wake ==
    /\ UNCHANGED <<agentVars, resolveVars, classifyVars, mergeVars>>
    /\ pc = "rate_sleep"
    /\ i' = i + config.batch_size
    /\ pc' = "gather"
    /\ StartBatch(i + config.batch_size, records)
    /\ UNCHANGED <<p_input, config, records, all_results, performance_metrics>>
    /\ UNCHANGED <<pauses, admitted>>

\* the agentic pipeline not called
AgentAtRest ==
    /\ a_input = <<>>
    /\ a_pc = "returned"
    /\ a_i = 0
    /\ a_node = "END"
    /\ a_state = << >>
    /\ a_results = <<>>
    /\ invoked = <<>>
    /\ visited = <<>>
    /\ hash_order = {}

\* fusion and resolve not run on their own
ResolveAtRest ==
    /\ rs_input = <<>>
    /\ rs_pc = <<>>
    /\ rs_state = <<>>
    /\ rs_calls = <<>>

\* classification and planning not run on their own
ClassifyAtRest ==
    /\ c_record = << >>
    /\ c_pc = << >>
    /\ c_out = << >>

\* the merge not run on its own
MergeAtRest ==
    /\ m_enriched = << >>
    /\ m_data = << >>
    /\ m_k = 0

InitProd ==
    /\ p_input \in ProdInputs
    /\ config \in Configs
    /\ records = <<>>
    /\ pc = "idle"
    /\ i = 0
    /\ frame = <<>>
    /\ source_urls = <<>>
    /\ enrichment_sources_used = 0
    /\ all_results = <<>>
    /\ performance_metrics = [successful_enrichments |-> 0, failed_enrichments |-> 0]
    /\ awaits = <<>>
    /\ op_runs = <<>>
    /\ own_urls = <<>>
    /\ pauses = 0
    /\ admitted = 0
    /\ AgentAtRest
    /\ ResolveAtRest
    /\ MergeAtRest
    /\ ClassifyAtRest

NextProd ==
    \/ process_records_begin
    \/ \E r \in 1..MaxRecords + 1 : source_returns(r)
    \/ \E r \in 1..MaxRecords + 1 : source_raises(r)
    \/ \E r \in 1..MaxRecords + 1 : retry_wake(r)
    \/ gather_done
    \/ rate_limit_wake

SpecProd == InitProd /\ [][NextProd]_vars

(***************************************************************************)
(* Production pipeline: properties                                         *)
(***************************************************************************)
\* C1: a run returns exactly one output entry per input record, so when process_records
\* has returned (no sample limit configured) the output is as long as the input.
C1_OneOutputPerInput ==
    (pc = "returned" /\ config.sample_size = 0) => Len(all_results) = Len(p_input)

\* C2: a record whose processing raised is given a degraded output entry (original
\* fields, confidence 0): when the run has returned, every record whose enrich_record
\* raised has an entry of its own in the output, with confidence 0.
C2_FailedRecordGetsDegradedEntry ==
    pc = "returned" =>
        \A r \in DOMAIN frame :
            frame[r].pc = "failed" =>
                \E k \in DOMAIN all_results :
                    /\ all_results[k].fdd_store_no = records[r].fdd_store_no
                    /\ all_results[k].confidence_score = 0

\* C7: the provenance list and the sources-used count written to an output record hold
\* only the contributions of that record's own source invocations.
C7_ProvenanceIsTheRecordsOwn ==
    \A r \in DOMAIN frame :
        frame[r].pc = "done" =>
            /\ frame[r].enriched.url_sources = Join(own_urls[r], <<"; ">>)
            /\ frame[r].enriched.enrichment_sources_used = Len(frame[r].results)

\* C8: every attempt made for a source, a retry after the delay included, is a new
\* attempt of that source's operation: the attempts made and the runs of the source
\* operations are the same sequence.
C8_EveryAttemptRunsTheSource ==
    \A r \in DOMAIN awaits : awaits[r] = op_runs[r]

\* C9: a source that failed on every attempt does not fail the record; every enabled
\* source of a completed record was run, the results kept come from the sources that
\* were not given up, and the sources-used counter counts exactly the results kept.
C9_ExhaustedSourceIsSkipped ==
    /\ \A r \in DOMAIN frame :
          /\ frame[r].gave_up # <<>> => frame[r].pc # "failed"
          /\ frame[r].pc = "done" =>
                /\ op_runs[r] = frame[r].tasks
                /\ Len(frame[r].results) + Len(frame[r].gave_up) <= Len(frame[r].tasks)
    /\ pc \in {"gather", "rate_sleep", "returned"} =>
          enrichment_sources_used =
              SumSeq([r \in 1..Len(records) |->
                         IF r \in BatchOf(i, records, config) THEN Len(frame[r].results) ELSE 0])

\* C9 witness: a completed record whose first source was given up and whose second
\* source gave a result that was kept.
C9_Witness ==
    \E r \in DOMAIN frame :
        /\ frame[r].pc = "done"
        /\ Len(frame[r].tasks) = 2
        /\ frame[r].gave_up = <<frame[r].tasks[1]>>
        /\ Len(frame[r].results) = 1

\* C10: the number of records whose enrichment is in progress never exceeds
\* max_concurrent_requests.
C10_InProgressWithinLimit ==
    Cardinality({r \in DOMAIN frame : frame[r].pc \in {"in_source", "sleeping"}})
        <= config.max_concurrent_requests

\* C33: process_records sleeps for the rate-limit delay after every batch that another
\* batch follows and never after the last: while a batch is gathered one sleep has
\* occurred per earlier batch, a sleep is entered only with records left, and a call
\* that has returned has slept ceil(n / batch_size) - 1 times for n > 0 admitted records
\* and never for n = 0.
C33_PausesBetweenBatchesOnly ==
    LET n == Len(records)
        size == config.batch_size
    IN  /\ pc = "gather" => pauses = i \div size
        /\ pc = "rate_sleep" => (i + size < n /\ pauses = i \div size + 1)
        /\ pc = "returned" =>
               pauses = IF n = 0 THEN 0 ELSE (n + size - 1) \div size - 1

\* a call on two records in batches of one has returned after one sleep
C33_Witness ==
    /\ pc = "returned"
    /\ Len(records) = 2
    /\ config.batch_size = 1
    /\ pauses = 1

\* the record's enrich_record has finished: it returned or raised
Finished(r) == frame[r].pc \in {"done", "failed"}

\* C39: process_records runs the admitted records in consecutive batches of at most
\* batch_size, in input order: the batch loop's index moves by batch_size; while a call
\* runs, the records before the index have finished, the records started and not
\* finished are among the batch_size records from the index on, and the records after
\* them have not started; a call that has returned has finished every admitted record.
C39_BatchesInOrder ==
    /\ [](pc \in {"gather", "rate_sleep"} =>
             /\ i % config.batch_size = 0
             /\ i < Len(records)
             /\ DOMAIN frame = 1..Len(records)
             /\ \A r \in 1..Len(records) :
                   /\ r <= i => Finished(r)
                   /\ r > i + config.batch_size => frame[r].pc = "pending"
                   /\ (r > i /\ r <= i + config.batch_size) => frame[r].pc # "pending"
                   /\ pc = "rate_sleep" => (r <= i + config.batch_size => Finished(r)))
    /\ []((pc = "returned" /\ records # <<>>) => \A r \in 1..Len(records) : Finished(r))
    /\ [][i' # i => (pc = "rate_sleep" /\ i' = i + config.batch_size)]_vars

\* the second batch is being gathered: its record is in a source call, the record of
\* the first batch has finished
C39_Witness ==
    /\ pc = "gather"
    /\ config.batch_size = 1
    /\ i = 1
    /\ Len(records) = 2
    /\ frame[2].pc = "in_source"
    /\ Finished(1)

(***************************************************************************)
(* Production pipeline: several process_records calls on one pipeline      *)
(***************************************************************************)
\* a further call is made while the pipeline has admitted fewer records than this
MaxAdmitted == 3

\* the lists given to the calls: records that succeed and records that fail
CallInputs ==
    {[k \in DOMAIN kinds |-> ProdSample(kinds[k], RecordNos[k])] :
        kinds \in UNION {[1..n -> {"business", "badname"}] : n \in 0..MaxRecords}}

\* process_records is called again on the same pipeline: the locals of the call are new
\* (lines 520-530), self.performance_metrics is the one __init__ made (lines 464-472)
process_records_called ==
    /\ UNCHANGED <<agentVars, resolveVars, classifyVars, mergeVars>>
    /\ pc = "returned"
    /\ admitted < MaxAdmitted
    /\ p_input' \in CallInputs
    /\ pc' = "idle"
    /\ records' = <<>>
    /\ i' = 0
    /\ frame' = <<>>
    /\ source_urls' = <<>>
    /\ enrichment_sources_used' = 0
    /\ all_results' = <<>>
    /\ awaits' = <<>>
    /\ op_runs' = <<>>
    /\ own_urls' = <<>>
    /\ pauses' = 0
    /\ UNCHANGED <<config, performance_metrics, admitted>>

InitCalls ==
    /\ p_input \in CallInputs
    /\ config \in {c \in Configs : c.max_retries = MaxRetries
                                   /\ c.enabled = {"business_registry", "google_places"}}
    /\ records = <<>>
    /\ pc = "idle"
    /\ i = 0
    /\ frame = <<>>
    /\ source_urls = <<>>
    /\ enrichment_sources_used = 0
    /\ all_results = <<>>
    /\ performance_metrics = [successful_enrichments |-> 0, failed_enrichments |-> 0]
    /\ awaits = <<>>
    /\ op_runs = <<>>
    /\ own_urls = <<>>
    /\ pauses = 0
    /\ admitted = 0
    /\ AgentAtRest
    /\ ResolveAtRest
    /\ MergeAtRest
    /\ ClassifyAtRest

NextCalls ==
    \/ NextProd
    \/ process_records_called

SpecCalls == InitCalls /\ [][NextCalls]_vars

\* successful_enrichments + failed_enrichments
Counted == performance_metrics.successful_enrichments + performance_metrics.failed_enrichments

\* the records of the current call whose batch has been counted
CountedOfCall ==
    IF pc = "gather" THEN i
    ELSE IF pc = "rate_sleep" THEN i + config.batch_size
    ELSE Len(records)

\* C34: the success and failure counters change only when the batch loop counts a
\* batch all of whose records have completed, never while record tasks run, and no
\* update is lost: the two counters add up to the records admitted by the calls so
\* far, less the records of the running call whose batch is not yet counted; between
\* calls they add up to all the records admitted.
C34_CountersAddUpToAdmitted ==
    /\ [](/\ Counted = admitted - Len(records) + CountedOfCall
          /\ pc \in {"idle", "returned"} => Counted = admitted)
    /\ [][performance_metrics' # performance_metrics =>
              (pc = "gather" /\ BatchFinished /\ pc' # "gather")]_vars

\* a second call has returned, and records have succeeded and failed
C34_Witness ==
    /\ pc = "returned"
    /\ admitted > Len(records)
    /\ Len(records) = 2
    /\ config.batch_size = 1
    /\ performance_metrics.successful_enrichments >= 2
    /\ performance_metrics.failed_enrichments >= 1

(***************************************************************************)
(* Production pipeline: construction (configuration validation)            *)
(***************************************************************************)
\* validate_config: the issues it lists; thresholds in hundredths
validate_config(cfg) ==
    (IF cfg.max_concurrent_requests <= 0
     THEN {"max_concurrent_requests must be positive"} ELSE {})
    \cup (IF cfg.batch_size <= 0 THEN {"batch_size must be positive"} ELSE {})
    \cup (IF ~(0 <= cfg.minimum_confidence_threshold /\ cfg.minimum_confidence_threshold <= 100)
          THEN {"minimum_confidence_threshold must be between 0 and 1"} ELSE {})
    \cup (IF ~(0 <= cfg.high_confidence_threshold /\ cfg.high_confidence_threshold <= 100)
          THEN {"high_confidence_threshold must be between 0 and 1"} ELSE {})
    \cup (IF cfg.minimum_confidence_threshold > cfg.high_confidence_threshold
          THEN {"minimum_confidence_threshold cannot be greater than high_confidence_threshold"}
          ELSE {})
    \cup (IF ~cfg.input_file_exists THEN {"Input file does not exist"} ELSE {})

\* the configurations a pipeline is constructed with: those of Configs with the shipped
\* defaults for the settings the batch loop does not read, and each of them with one
\* setting changed
ConfigCandidates ==
    LET full == {c @@ [timeout_seconds |-> 30, minimum_confidence_threshold |-> 50,
                       high_confidence_threshold |-> 80, input_file_exists |-> TRUE] :
                    c \in Configs}
    IN  full \cup
        {[c EXCEPT ![change[1]] = change[2]] :
            c \in full,
            change \in {<<"max_concurrent_requests", 0>>, <<"batch_size", 0>>,
                        <<"max_retries", 0>>, <<"timeout_seconds", 0>>,
                        <<"minimum_confidence_threshold", 0 - 10>>,
                        <<"minimum_confidence_threshold", 90>>,
                        <<"high_confidence_threshold", 110>>,
                        <<"input_file_exists", FALSE>>}}

\* ProductionFranchiseeEnrichmentPipeline.__init__: load_config, validate_config, and
\* ValueError("Configuration validation failed: ...") when an issue is listed
pipeline_init ==
    /\ pc = "constructing"
    /\ pc' = IF validate_config(config) # {} THEN "config_error" ELSE "idle"
    /\ UNCHANGED <<p_input, config, records, i, frame, source_urls, enrichment_sources_used,
                   all_results, performance_metrics, awaits, op_runs, own_urls, pauses,
                   admitted>>
    /\ UNCHANGED <<agentVars, resolveVars, classifyVars, mergeVars>>

InitConfig ==
    /\ p_input \in ProdInputs
    /\ config \in ConfigCandidates
    /\ records = <<>>
    /\ pc = "constructing"
    /\ i = 0
    /\ frame = <<>>
    /\ source_urls = <<>>
    /\ enrichment_sources_used = 0
    /\ all_results = <<>>
    /\ performance_metrics = [successful_enrichments |-> 0, failed_enrichments |-> 0]
    /\ awaits = <<>>
    /\ op_runs = <<>>
    /\ own_urls = <<>>
    /\ pauses = 0
    /\ admitted = 0
    /\ AgentAtRest
    /\ ResolveAtRest
    /\ MergeAtRest
    /\ ClassifyAtRest

NextConfig ==
    \/ pipeline_init
    \/ NextProd

SpecConfig == InitConfig /\ [][NextConfig]_vars

\* the settings C14 requires of a configuration (thresholds in hundredths)
SettingsInRange(cfg) ==
    /\ 0 <= cfg.minimum_confidence_threshold /\ cfg.minimum_confidence_threshold <= 100
    /\ 0 <= cfg.high_confidence_threshold /\ cfg.high_confidence_threshold <= 100
    /\ cfg.minimum_confidence_threshold <= cfg.high_confidence_threshold
    /\ cfg.max_concurrent_requests > 0
    /\ cfg.batch_size > 0
    /\ cfg.max_retries > 0
    /\ cfg.timeout_seconds > 0

\* C14: a pipeline constructed with a threshold outside [0, 1], a minimum threshold
\* above the high one, or a concurrency limit, batch size, retry count or timeout that
\* is not positive fails with a configuration error, and no record is processed.
C14_BadSettingsFailConstruction ==
    ~SettingsInRange(config) =>
        /\ pc \in {"constructing", "config_error"}
        /\ records = <<>> /\ all_results = <<>>

(***************************************************************************)
(* Agentic pipeline: process_records_agentic and the workflow nodes        *)
(***************************************************************************)
MaxAgentRecords == 2

\* The dict records tried: a Texas LLC, an Inc. of another state, a "Last, First"
\* person, a record whose franchisee is not a str (a NaN of the CSV reader), and a
\* record without the "phone" column.
AgentSample(kind) ==
    LET full ==
          [fdd |-> <<"F">>, fdd_store_no |-> <<"7">>, fdd_location_name |-> <<"W">>,
           franchisee |-> CASE kind \in {"business_tx", "nophone"} -> <<"A","c","e"," ","L","L","C">>
                            [] kind = "business" -> <<"B","o"," ","I","n","c">>
                            [] kind = "individual" -> <<"S","m","i","t","h",","," ","J","o","h","n">>
                            [] OTHER -> NotAStr,
           fdd_contact_name |-> <<"J">>,
           address |-> <<"1"," ","E","l","m">>,
           city |-> <<"W","a","c","o">>,
           state |-> IF kind \in {"business_tx", "nophone"} THEN <<"t","x">> ELSE <<"C","A">>,
           zip |-> <<"7","6","7">>,
           phone |-> <<"5","5","5","-","0","1","0","1">>]
    IN  IF kind = "nophone" THEN [f \in DOMAIN full \ {"phone"} |-> full[f]] ELSE full

AgentKinds == {"business_tx", "business", "individual", "badname", "nophone"}

AgentInputs ==
    {[k \in DOMAIN kinds |-> AgentSample(kinds[k])] :
        kinds \in UNION {[1..n -> AgentKinds] : n \in 0..MaxAgentRecords}}

\* initial_state of process_records_agentic (lines 496-506); a dict has no "conflicts"
\* key until _validate_and_score_results sets it, which state.get reads as empty
InitialState(record) ==
    [record |-> record, entity_classification |-> << >>, enrichment_strategy |-> << >>,
     data_sources_attempted |-> <<>>, enrichment_results |-> <<>>,
     confidence_scores |-> <<>>, quality_metrics |-> << >>, final_result |-> << >>,
     error_state |-> "None", conflicts |-> << >>]

\* the conditional edge after plan_enrichment (lines 100-107)
route_enrichment_strategy(classification) ==
    IF classification.type = "business" THEN "execute_business_enrichment"
    ELSE "execute_individual_enrichment"

\* A variant of the conditional edge after validate_and_score that goes back to
\* planning when there is no conflict.
check_conflicts_replans(conflicts) ==
    IF DOMAIN conflicts # {} THEN "resolve_conflicts" ELSE "plan_enrichment"

\* the conditional edge after validate_and_score (lines 113-120): _check_conflicts
check_conflicts(conflicts) ==
    IF DOMAIN conflicts # {} THEN "resolve_conflicts" ELSE "finalize_result"

\* the except branch of process_records_agentic: a minimal result is appended, unless
\* building it raises, which ends process_records_agentic with that exception
RecordFails(cause) ==
    /\ a_node' = "aborted"
    /\ IF result_ctor_raises(a_state.record)
       THEN a_pc' = "raised" /\ a_results' = a_results
       ELSE a_pc' = "loop" /\ a_results' = Append(a_results, FailedResult(a_state.record, cause))

\* the head of the for loop (lines 490-506): the next record and its initial state, or
\* `return results`
agentic_next_record ==
    /\ UNCHANGED hash_order
    /\ visited' = IF a_i < Len(a_input) THEN <<>> ELSE visited
    /\ a_pc = "loop"
    /\ IF a_i < Len(a_input)
       THEN /\ a_i' = a_i + 1
            /\ a_state' = InitialState(a_input[a_i + 1])
            /\ invoked' = <<>>
            /\ IF "franchisee" \in DOMAIN a_input[a_i + 1]
               THEN a_pc' = "workflow" /\ a_node' = "classify_entity"
               ELSE a_pc' = "raised" /\ a_node' = "aborted"
       ELSE /\ a_pc' = "returned"
            /\ UNCHANGED <<a_i, a_state, a_node, invoked>>
    /\ UNCHANGED <<a_input, a_results>>
    /\ UNCHANGED <<prodVars, resolveVars, classifyVars, mergeVars>>

node_classify_entity ==
    /\ UNCHANGED hash_order
    /\ visited' = Append(visited, a_node)
    /\ a_pc = "workflow" /\ a_node = "classify_entity"
    /\ IF classify_entity_node_raises(a_state.record)
       THEN RecordFails("AttributeError") /\ a_state' = a_state
       ELSE /\ a_state' = [a_state EXCEPT
                              !.entity_classification = classify_entity_node(a_state.record)]
            /\ a_node' = "plan_enrichment"
            /\ UNCHANGED <<a_pc, a_results>>
    /\ UNCHANGED <<a_input, a_i, invoked>>
    /\ UNCHANGED <<prodVars, resolveVars, classifyVars, mergeVars>>

\* _plan_enrichment_strategy, then the conditional edge _route_enrichment_strategy
node_plan_enrichment ==
    /\ UNCHANGED hash_order
    /\ visited' = Append(visited, a_node)
    /\ a_pc = "workflow" /\ a_node = "plan_enrichment"
    /\ IF plan_enrichment_strategy_raises(a_state.entity_classification, a_state.record)
       THEN RecordFails("KeyError") /\ a_state' = a_state
       ELSE /\ a_state' = [a_state EXCEPT
                              !.enrichment_strategy =
                                  plan_enrichment_strategy(a_state.entity_classification,
                                                           a_state.record)]
            /\ a_node' = route_enrichment_strategy(a_state.entity_classification)
            /\ UNCHANGED <<a_pc, a_results>>
    /\ UNCHANGED <<a_input, a_i, invoked>>
    /\ UNCHANGED <<prodVars, resolveVars, classifyVars, mergeVars>>

Calls(sources, priority) == [k \in 1..Len(sources) |-> [source |-> sources[k], priority |-> priority]]

\* _execute_business_enrichment: the primaries, and the fallbacks when the mean
\* confidence of what the primaries gave is below the threshold
node_execute_business_enrichment ==
    /\ UNCHANGED hash_order
    /\ visited' = Append(visited, a_node)
    /\ a_pc = "workflow" /\ a_node = "execute_business_enrichment"
    /\ LET record == a_state.record
           strategy == a_state.enrichment_strategy
       IN  IF \E k \in 1..Len(strategy.primary_sources) :
                  call_source_raises(strategy.primary_sources[k], record)
           THEN RecordFails("KeyError") /\ a_state' = a_state /\ invoked' = invoked
           ELSE \E kinds \in [1..Len(strategy.primary_sources) -> ReplyKinds] :
                \E after_primary \in
                      {FoldReplies(a_state, strategy.primary_sources,
                                   [k \in 1..Len(strategy.primary_sources) |->
                                       Reply(kinds[k], call_enrichment_source(
                                                          strategy.primary_sources[k], record))],
                                   "primary", 70, 1)} :
                  IF NeedsFallback(after_primary.confidence_scores, strategy.confidence_threshold)
                  THEN \E fkinds \in [1..Len(strategy.fallback_sources) -> ReplyKinds] :
                         /\ a_state' =
                               FoldReplies(after_primary, strategy.fallback_sources,
                                           [k \in 1..Len(strategy.fallback_sources) |->
                                               Reply(fkinds[k], call_enrichment_source(
                                                          strategy.fallback_sources[k], record))],
                                           "fallback", 60, 1)
                         /\ invoked' = Calls(strategy.primary_sources, "primary")
                                         \o Calls(strategy.fallback_sources, "fallback")
                         /\ a_node' = "validate_and_score"
                         /\ UNCHANGED <<a_pc, a_results>>
                  ELSE /\ a_state' = after_primary
                       /\ invoked' = Calls(strategy.primary_sources, "primary")
                       /\ a_node' = "validate_and_score"
                       /\ UNCHANGED <<a_pc, a_results>>
    /\ UNCHANGED <<a_input, a_i>>
    /\ UNCHANGED <<prodVars, resolveVars, classifyVars, mergeVars>>

\* _execute_individual_enrichment: the primaries only
node_execute_individual_enrichment ==
    /\ UNCHANGED hash_order
    /\ visited' = Append(visited, a_node)
    /\ a_pc = "workflow" /\ a_node = "execute_individual_enrichment"
    /\ LET record == a_state.record
           strategy == a_state.enrichment_strategy
       IN  IF \/ "franchisee" \notin DOMAIN record
              \/ \E k \in 1..Len(strategy.primary_sources) :
                    call_source_raises(strategy.primary_sources[k], record)
           THEN RecordFails("KeyError") /\ a_state' = a_state /\ invoked' = invoked
           ELSE \E kinds \in [1..Len(strategy.primary_sources) -> ReplyKinds] :
                  /\ a_state' =
                        FoldReplies(a_state, strategy.primary_sources,
                                    [k \in 1..Len(strategy.primary_sources) |->
                                        Reply(kinds[k], call_individual_enrichment_source(
                                                  strategy.primary_sources[k], record,
                                                  IndividualNames(record["franchisee"])[1],
                                                  IndividualNames(record["franchisee"])[2]))],
                                    "primary", 80, 1)
                  /\ invoked' = Calls(strategy.primary_sources, "primary")
                  /\ a_node' = "validate_and_score"
                  /\ UNCHANGED <<a_pc, a_results>>
    /\ UNCHANGED <<a_input, a_i>>
    /\ UNCHANGED <<prodVars, resolveVars, classifyVars, mergeVars>>

\* _validate_and_score_results, then the conditional edge _check_conflicts
node_validate_and_score ==
    /\ a_pc = "workflow" /\ a_node = "validate_and_score"
    /\ \E conflicts \in PossibleConflicts(a_state.enrichment_results) :
         /\ \A f \in DOMAIN conflicts : \A seen \in hash_order :
                seen[1] = AggregatedValues(a_state.enrichment_results, f)
                    => conflicts[f].values = seen[2]
         /\ hash_order' = hash_order \cup
                {<<AggregatedValues(a_state.enrichment_results, f), conflicts[f].values>> :
                    f \in DOMAIN conflicts}
         /\ a_state' = [a_state EXCEPT !.quality_metrics = QualityMetrics(a_state),
                                       !.conflicts = conflicts]
         /\ a_node' = check_conflicts(conflicts)
    /\ visited' = Append(visited, a_node)
    /\ UNCHANGED <<a_input, a_pc, a_i, a_results, invoked>>
    /\ UNCHANGED <<prodVars, resolveVars, classifyVars, mergeVars>>

node_resolve_conflicts ==
    /\ UNCHANGED hash_order
    /\ visited' = Append(visited, a_node)
    /\ a_pc = "workflow" /\ a_node = "resolve_conflicts"
    /\ IF \E f \in DOMAIN a_state.conflicts :
              resolve_raises(a_state.conflicts[f].values, a_state.conflicts[f].sources)
       THEN RecordFails("IndexError") /\ a_state' = a_state
       ELSE /\ a_state' = [a_state EXCEPT
                              !.enrichment_results =
                                  ApplyResolved(@, ResolvedData(a_state.conflicts))]
            /\ a_node' = "finalize_result"
            /\ UNCHANGED <<a_pc, a_results>>
    /\ UNCHANGED <<a_input, a_i, invoked>>
    /\ UNCHANGED <<prodVars, resolveVars, classifyVars, mergeVars>>

node_finalize_result ==
    /\ UNCHANGED hash_order
    /\ visited' = Append(visited, a_node)
    /\ a_pc = "workflow" /\ a_node = "finalize_result"
    /\ a_state' = [a_state EXCEPT !.final_result = FinalResult(a_state)]
    /\ a_node' = "END"
    /\ UNCHANGED <<a_input, a_pc, a_i, a_results, invoked>>
    /\ UNCHANGED <<prodVars, resolveVars, classifyVars, mergeVars>>

\* ainvoke returns the final state; its final_result becomes the record's result
\* (lines 510-527)
workflow_returns ==
    /\ UNCHANGED <<hash_order, visited>>
    /\ a_pc = "workflow" /\ a_node = "END"
    /\ IF result_ctor_raises(a_state.final_result)
       THEN RecordFails("TypeError")
       ELSE /\ a_results' = Append(a_results, AgenticEnrichmentResult(a_state.final_result))
            /\ a_pc' = "loop"
            /\ a_node' = a_node
    /\ UNCHANGED <<a_input, a_i, a_state, invoked>>
    /\ UNCHANGED <<prodVars, resolveVars, classifyVars, mergeVars>>

\* the configuration the production pipeline holds while it is not called
DefaultConfig ==
    [batch_size |-> MaxBatchSize, max_concurrent_requests |-> MaxConcurrent,
     max_retries |-> MaxRetries, sample_size |-> 0,
     enabled |-> {"business_registry", "google_places"}]

\* the production pipeline not called
ProdAtRest ==
    /\ p_input = <<>>
    /\ config = DefaultConfig
    /\ records = <<>>
    /\ pc = "returned"
    /\ i = 0
    /\ frame = <<>>
    /\ source_urls = <<>>
    /\ enrichment_sources_used = 0
    /\ all_results = <<>>
    /\ performance_metrics = [successful_enrichments |-> 0, failed_enrichments |-> 0]
    /\ awaits = <<>>
    /\ op_runs = <<>>
    /\ own_urls = <<>>
    /\ pauses = 0
    /\ admitted = 0

InitAgent ==
    /\ a_input \in AgentInputs
    /\ a_pc = "loop"
    /\ a_i = 0
    /\ a_node = "END"
    /\ a_state = << >>
    /\ a_results = <<>>
    /\ invoked = <<>>
    /\ visited = <<>>
    /\ hash_order = {}
    /\ ProdAtRest
    /\ ResolveAtRest
    /\ MergeAtRest
    /\ ClassifyAtRest

NextAgent ==
    \/ agentic_next_record
    \/ node_classify_entity
    \/ node_plan_enrichment
    \/ node_execute_business_enrichment
    \/ node_execute_individual_enrichment
    \/ node_validate_and_score
    \/ node_resolve_conflicts
    \/ node_finalize_result
    \/ workflow_returns

SpecAgent == InitAgent /\ [][NextAgent]_vars

(***************************************************************************)
(* Termination: a run of either pipeline, every step that can be taken     *)
(* being taken eventually (the event loop resumes every ready coroutine,   *)
(* every sleep ends, every source call returns or raises)                  *)
(***************************************************************************)
InitRuns == InitProd \/ InitAgent

NextRuns == NextProd \/ NextAgent

SpecRuns == InitRuns /\ [][NextRuns]_vars /\ WF_vars(NextRuns)

\* how many times the record awaited the source (line 238)
RECURSIVE Attempts(_, _)
Attempts(awaited, source) ==
    IF awaited = <<>> THEN 0
    ELSE (IF Head(awaited) = source THEN 1 ELSE 0) + Attempts(Tail(awaited), source)

\* no record has awaited a source more than max_retries times
AttemptsBounded ==
    \A r \in DOMAIN awaits : \A k \in DOMAIN SOURCE_ORDER :
        Attempts(awaits[r], SOURCE_ORDER[k]) <= config.max_retries

\* process_records has returned, and process_records_agentic has returned or raised
RunEnded == pc = "returned" /\ a_pc \in {"returned", "raised"}

\* The steps a record's coroutine can still take: for the task it awaits, two per
\* attempt left (the failure, then the end of the sleep), and for every task after it
\* the whole retry budget; a record of a later batch has every task before it.
FrameLeft(fr, cfg) ==
    IF fr.pc \in {"in_source", "sleeping"}
    THEN 2 * cfg.max_retries * (Len(fr.tasks) - fr.k) + 2 * (cfg.max_retries - fr.attempt)
         - (IF fr.pc = "sleeping" THEN 1 ELSE 0)
    ELSE IF fr.pc = "pending" THEN 2 * cfg.max_retries * Len(EnabledTasks(cfg.enabled))
    ELSE 0

RECURSIVE FramesLeft(_)
FramesLeft(r) == IF r = 0 THEN 0 ELSE FrameLeft(frame[r], config) + FramesLeft(r - 1)

\* the batches of the for loop from index i on
BatchesLeft == (Len(records) - i + config.batch_size - 1) \div config.batch_size

\* the steps process_records can still take: those of its records, and per batch the
\* end of the gather and the rate-limit sleep
ProdLeft ==
    CASE pc = "idle" ->
            1 + Len(Admitted(p_input, config))
                  * (2 * config.max_retries * Len(EnabledTasks(config.enabled)) + 2)
      [] pc \in {"gather", "rate_sleep"} ->
            FramesLeft(Len(frame)) + 2 * BatchesLeft - (IF pc = "rate_sleep" THEN 1 ELSE 0)
      [] OTHER -> 0

\* the stages of the workflow from the last one back to the first one, the two
\* enrichment stages being alternatives
StagesLeft(node) ==
    CASE node = "END" -> 1
      [] node = "finalize_result" -> 2
      [] node = "resolve_conflicts" -> 3
      [] node = "validate_and_score" -> 4
      [] node \in {"execute_business_enrichment", "execute_individual_enrichment"} -> 5
      [] node = "plan_enrichment" -> 6
      [] node = "classify_entity" -> 7
      [] OTHER -> 0

\* the steps process_records_agentic can still take: the stages left of the current
\* record, every step of the records not taken yet, and `return results`
AgentLeft ==
    CASE a_pc = "loop" -> 9 * (Len(a_input) - a_i) + 1
      [] a_pc = "workflow" -> 9 * (Len(a_input) - a_i) + 1 + StagesLeft(a_node)
      [] OTHER -> 0

Remaining == ProdLeft + AgentLeft

\* a run that has not ended has a step to take: a record of the gathered batch is in
\* a source call or in a retry sleep, or the gather or a sleep of process_records can
\* end, or the agentic loop or a stage of the current workflow can run
StepReady ==
    \/ pc = "idle"
    \/ pc = "rate_sleep"
    \/ /\ pc = "gather"
       /\ \/ BatchFinished
          \/ \E r \in BatchOf(i, records, config) : frame[r].pc \in {"in_source", "sleeping"}
    \/ a_pc = "loop"
    \/ a_pc = "workflow" /\ StagesLeft(a_node) > 0

\* a run never stops before its end, and process_records returns only after the last
\* batch, every admitted record having run to its end
NeverStuck ==
    /\ RunEnded \/ StepReady
    /\ Remaining >= 0
    /\ pc = "returned" =>
          /\ i + config.batch_size >= Len(records)
          /\ \A r \in DOMAIN frame : frame[r].pc \in {"done", "failed"}

AfterExecute == a_pc = "workflow" /\ a_node = "validate_and_score"

\* the confidences the primary results of the current record carry
PrimaryScores ==
    SubSeq(a_state.confidence_scores, 1,
           Cardinality({k \in DOMAIN a_state.enrichment_results :
                           a_state.enrichment_results[k].priority = "primary"}))

\* C3: once the primaries of a record have been invoked, the fallback sources are
\* invoked if and only if the mean confidence of the primary results (0 with no primary
\* result) is below the strategy's threshold, for business and individual records alike.
C3_FallbackIffBelowThreshold ==
    AfterExecute =>
        ((\E k \in DOMAIN invoked : invoked[k].priority = "fallback")
         <=> IF PrimaryScores = <<>>
             THEN 0 < a_state.enrichment_strategy.confidence_threshold
             ELSE SumSeq(PrimaryScores)
                    < a_state.enrichment_strategy.confidence_threshold * Len(PrimaryScores))

\* the priorities of the contributions of one field, in the order fusion lists them
RECURSIVE FieldPriorities(_, _)
FieldPriorities(enrichment_results, field) ==
    IF enrichment_results = <<>> THEN <<>>
    ELSE (IF field \in DataFields(Head(enrichment_results))
          THEN <<Head(enrichment_results)["priority"]>> ELSE <<>>)
         \o FieldPriorities(Tail(enrichment_results), field)

PrimaryFirst(priorities) ==
    \A j, k \in DOMAIN priorities :
        (priorities[j] = "fallback" /\ priorities[k] = "primary") => k < j

\* C4: within a record no fallback source is invoked before every primary source has
\* been, and every primary result precedes every fallback result in enrichment_results
\* and in the contribution list of every field.
C4_PrimaryBeforeFallback ==
    a_pc = "workflow" =>
        /\ PrimaryFirst([k \in DOMAIN invoked |-> invoked[k].priority])
        /\ (\E k \in DOMAIN invoked : invoked[k].priority = "fallback") =>
              \A n \in DOMAIN a_state.enrichment_strategy.primary_sources :
                  invoked[n] = [source |-> a_state.enrichment_strategy.primary_sources[n],
                                priority |-> "primary"]
        /\ PrimaryFirst([k \in DOMAIN a_state.enrichment_results |->
                            a_state.enrichment_results[k].priority])
        /\ \A f \in AggregatedFields(a_state.enrichment_results) :
              PrimaryFirst(FieldPriorities(a_state.enrichment_results, f))

\* C4 witness: a record with a field to which a primary and a fallback source both
\* contributed.
C4_Witness ==
    /\ a_pc = "workflow"
    /\ \E f \in AggregatedFields(a_state.enrichment_results) :
          {"primary", "fallback"} \subseteq Seq2Set(FieldPriorities(a_state.enrichment_results, f))

\* C5: for a conflict to which business_registry contributed, the resolver's value is
\* the one business_registry contributed: after the resolve node every result that has
\* the field holds the registry's value.
C5_RegistryValueWins ==
    (a_pc = "workflow" /\ a_node = "finalize_result") =>
        \A f \in DOMAIN a_state.conflicts :
            (\E k \in DOMAIN a_state.conflicts[f].sources :
                  a_state.conflicts[f].sources[k] = "business_registry") =>
                \A k \in DOMAIN a_state.enrichment_results :
                    f \in DOMAIN a_state.enrichment_results[k] =>
                        a_state.enrichment_results[k][f]
                            = call_enrichment_source("business_registry", a_state.record)[f]

\* the edges of the workflow graph, as the stage order lists them
StageEdges ==
    {<<"classify_entity", "plan_enrichment">>,
     <<"plan_enrichment", "execute_business_enrichment">>,
     <<"plan_enrichment", "execute_individual_enrichment">>,
     <<"execute_business_enrichment", "validate_and_score">>,
     <<"execute_individual_enrichment", "validate_and_score">>,
     <<"validate_and_score", "resolve_conflicts">>,
     <<"validate_and_score", "finalize_result">>,
     <<"resolve_conflicts", "finalize_result">>}

\* the nodes run so far for the current record follow the stage order from classify on,
\* none of them twice, and the node to run next continues it
StagesInOrder ==
    /\ visited # <<>> => visited[1] = "classify_entity"
    /\ \A k \in 1..(Len(visited) - 1) : <<visited[k], visited[k + 1]>> \in StageEdges
    /\ \A j, k \in DOMAIN visited : j # k => visited[j] # visited[k]
    /\ (a_pc = "workflow" /\ a_node # "END") =>
          IF visited = <<>> THEN a_node = "classify_entity"
          ELSE <<visited[Len(visited)], a_node>> \in StageEdges

C13_QualityWithinUnitInterval ==
    \A k \in DOMAIN a_results :
        a_results[k].quality_score >= 0 /\ a_results[k].quality_score <= 1000

\* plan_enrichment has run on the current record
AfterPlanning ==
    /\ a_state # << >>
    /\ \E k \in DOMAIN visited : visited[k] = "plan_enrichment"

\* C37: after planning, enrichment_results, data_sources_attempted and confidence_scores
\* have the same length; the k-th entry of each belongs to one source, a different one
\* for each k, whose non-empty reply the result holds; a source whose reply is empty has
\* no entry; and the final record's data_sources_consulted is that length.
C37_ResultsSourcesScoresAligned ==
    AfterPlanning =>
        LET results == a_state.enrichment_results
            attempted == a_state.data_sources_attempted
        IN  /\ Len(results) = Len(attempted)
            /\ Len(a_state.confidence_scores) = Len(attempted)
            /\ \A k \in DOMAIN attempted :
                  /\ results[k]["source"] = attempted[k]
                  /\ DOMAIN results[k] \ {"source", "priority"} # {}
                  /\ a_state.confidence_scores[k] =
                        SourceConfidence(results[k], a_state.confidence_scores[k])
                  /\ \A j \in DOMAIN attempted : attempted[j] = attempted[k] => j = k
                  /\ invoked # <<>> => \E j \in DOMAIN invoked : invoked[j].source = attempted[k]
            /\ \A j \in DOMAIN invoked :
                  (/\ a_state.entity_classification.type = "business"
                   /\ call_enrichment_source(invoked[j].source, a_state.record) = << >>)
                      => \A k \in DOMAIN attempted : attempted[k] # invoked[j].source
            /\ (a_pc = "loop" /\ a_node = "END") =>
                  a_results[Len(a_results)].data_sources_consulted = Len(attempted)

\* a record has been returned after four source calls of which two replied with data
C37_Witness ==
    /\ AfterPlanning
    /\ a_pc = "loop" /\ a_node = "END"
    /\ Len(invoked) = 4
    /\ Len(a_state.enrichment_results) = 2
    /\ a_results[Len(a_results)].data_sources_consulted = 2

(***************************************************************************)
(* Scoring as a function of the source results: the workflow from          *)
(* validate_and_score on, for one Texas business record and every          *)
(* combination of the replies below                                        *)
(***************************************************************************)
\* the "6 target fields" of field_completeness
TARGET_FIELDS ==
    {"franchisee_owner", "corporate_name", "corporate_address", "corporate_phone",
     "corporate_email", "linkedin"}

\* what a source may reply: nothing, or a dict with a declared confidence that carries
\* one target field, the six of them, or the six and two columns of the record the
\* source read; the sources agree on every field but, possibly, the address
ScoreReplies ==
    {<< >>} \cup
    {[f \in shape \cup {"source_confidence"} |->
         IF f = "source_confidence" THEN c
         ELSE IF f = "corporate_address" THEN addr ELSE <<"v">>] :
        shape \in {{"corporate_name"}, TARGET_FIELDS, TARGET_FIELDS \cup {"phone", "address"}},
        addr \in {<<"a">>, <<"b","c">>}, c \in {60, 95}}

\* the state _execute_business_enrichment leaves (lines 213-241) when the primaries
\* reply `primary` and the fallbacks, if consulted, reply `fallback`
execute_business_enrichment(st, primary, fallback) ==
    LET strategy == st.enrichment_strategy
        after_primary == FoldReplies(st, strategy.primary_sources, primary, "primary", 70, 1)
    IN  IF NeedsFallback(after_primary.confidence_scores, strategy.confidence_threshold)
        THEN FoldReplies(after_primary, strategy.fallback_sources, fallback, "fallback", 60, 1)
        ELSE after_primary

\* the state of a record after classify_entity and plan_enrichment
PlannedState(record) ==
    [InitialState(record) EXCEPT
        !.entity_classification = classify_entity_node(record),
        !.enrichment_strategy = plan_enrichment_strategy(classify_entity_node(record), record)]

InitScore ==
    /\ a_input = <<AgentSample("business_tx")>>
    /\ a_pc = "workflow"
    /\ a_i = 1
    /\ a_node = "validate_and_score"
    /\ \E primary \in [1..2 -> ScoreReplies], fallback \in [1..2 -> ScoreReplies] :
          a_state = execute_business_enrichment(PlannedState(a_input[1]), primary, fallback)
    /\ a_results = <<>>
    /\ invoked = <<>>
    /\ visited = <<"classify_entity", "plan_enrichment", "execute_business_enrichment">>
    /\ hash_order = {}
    /\ ProdAtRest
    /\ ResolveAtRest
    /\ MergeAtRest
    /\ ClassifyAtRest

NextScore ==
    \/ node_validate_and_score
    \/ node_resolve_conflicts
    \/ node_finalize_result
    \/ workflow_returns
    \/ agentic_next_record

SpecScore == InitScore /\ [][NextScore]_vars

\* C12: the confidence score of every emitted record lies in [0, 1] (thousandths),
\* whatever the sources returned, including replies that together fill more distinct
\* fields than the six target fields.
C12_ConfidenceWithinUnitInterval ==
    \A k \in DOMAIN a_results :
        a_results[k].agent_confidence >= 0 /\ a_results[k].agent_confidence <= 1000

\* fusion has just run on the record: _validate_and_score_results returned and nothing
\* has touched the results since
JustFused ==
    /\ a_pc = "workflow"
    /\ visited # <<>>
    /\ visited[Len(visited)] = "validate_and_score"

\* the sum over the fields of 1 - (distinct - 1) / max(1, contributions - 1), 5040 = 1.0
RECURSIVE SumOfFieldRatios(_, _)
SumOfFieldRatios(results, fields) ==
    IF fields = {} THEN 0
    ELSE LET f == CHOOSE x \in fields : TRUE
             contributed == AggregatedValues(results, f)
             distinct == Cardinality({contributed[k] : k \in DOMAIN contributed})
             others == IF Len(contributed) > 1 THEN Len(contributed) - 1 ELSE 1
         IN  (5040 * others - 5040 * (distinct - 1)) \div others
             + SumOfFieldRatios(results, fields \ {f})

\* C21: data_consistency is 1.0 when some field received a contribution and the values
\* contributed to every field are equal, 0.0 when no field received any, and otherwise
\* the mean over the contributed fields of 1 - (distinct values - 1) /
\* max(1, contributions - 1).
C21_DataConsistencyIsTheMean ==
    JustFused =>
        LET results == a_state.enrichment_results
            fields == AggregatedFields(results)
            got == a_state.quality_metrics.data_consistency
        IN  IF fields = {} THEN got = 0
            ELSE IF \A f \in fields :
                       \A j, k \in DOMAIN AggregatedValues(results, f) :
                           AggregatedValues(results, f)[j] = AggregatedValues(results, f)[k]
            THEN got = 5040
            ELSE got * Cardinality(fields) = SumOfFieldRatios(results, fields)

\* fusion has run on results of which three hold the address, with two distinct values
C21_Witness ==
    /\ JustFused
    /\ Len(AggregatedValues(a_state.enrichment_results, "corporate_address")) = 3
    /\ DOMAIN a_state.conflicts = {"corporate_address"}
    /\ a_state.quality_metrics.data_consistency < 5040
    /\ a_state.quality_metrics.data_consistency > 0

\* C24: resolve is entered if and only if the conflict set fusion computed is not
\* empty; when it is empty the workflow goes from fusion directly to finalize.
C24_ResolveIffConflicts ==
    /\ JustFused =>
          a_node = IF DOMAIN a_state.conflicts # {} THEN "resolve_conflicts"
                   ELSE "finalize_result"
    /\ (a_pc = "workflow" /\ \E k \in DOMAIN visited : visited[k] = "resolve_conflicts") =>
          DOMAIN a_state.conflicts # {}

\* fusion found no conflict among the results of three sources and finalize is next
C24_Witness ==
    /\ JustFused
    /\ Len(a_state.enrichment_results) = 3
    /\ DOMAIN a_state.conflicts = {}
    /\ a_node = "finalize_result"

\* C25: after fusion a field is in the conflict set if and only if the source results
\* contributed at least two distinct non-empty values for it.
C25_ConflictIffDistinctValues ==
    JustFused =>
        LET results == a_state.enrichment_results
            holds(k, f) == f \in DOMAIN results[k] /\ results[k][f] # <<>>
        IN  \A f \in UNION {DOMAIN results[k] : k \in DOMAIN results}
                    \ {"source", "priority", "source_confidence"} :
                f \in DOMAIN a_state.conflicts <=>
                    \E j, k \in DOMAIN results :
                        holds(j, f) /\ holds(k, f) /\ results[j][f] # results[k][f]

\* fusion has run on results that agree on the name and disagree on the address
C25_Witness ==
    /\ JustFused
    /\ Len(AggregatedValues(a_state.enrichment_results, "corporate_name")) >= 2
    /\ DOMAIN a_state.conflicts = {"corporate_address"}

\* resolve has run on the record and returned
Resolved ==
    /\ a_pc = "workflow"
    /\ \E k \in DOMAIN visited : visited[k] = "resolve_conflicts"

\* C26: after resolve, for every conflicting field, every source result that contained
\* the field holds the resolved value, and the merge of finalize puts exactly that
\* value into the final record.
C26_ResolvedValueEverywhere ==
    Resolved =>
        \A f \in DOMAIN a_state.conflicts :
            LET resolved_value == resolve_value(a_state.conflicts[f].values,
                                                a_state.conflicts[f].sources)
            IN  /\ \A k \in DOMAIN a_state.enrichment_results :
                      f \in DOMAIN a_state.enrichment_results[k] =>
                          a_state.enrichment_results[k][f] = resolved_value
                /\ a_node = "END" => a_state.final_result[f] = resolved_value

\* the workflow has ended after resolve on three results that held the address
C26_Witness ==
    /\ Resolved
    /\ a_node = "END"
    /\ Len(AggregatedValues(a_state.enrichment_results, "corporate_address")) = 3
    /\ "corporate_address" \in DOMAIN a_state.conflicts

\* C36: a step of the resolve stage changes nothing but the values of conflicting fields
\* inside enrichment_results: quality_metrics, the conflict set, data_sources_attempted,
\* confidence_scores, the strategy, the classification and the record stay as they
\* were, and so do the number of results, their keys and every other value they hold.
C36_ResolveChangesConflictingValuesOnly ==
    [][(a_pc = "workflow" /\ a_node = "resolve_conflicts") =>
          /\ DOMAIN a_state' = DOMAIN a_state
          /\ \A key \in DOMAIN a_state \ {"enrichment_results"} : a_state'[key] = a_state[key]
          /\ Len(a_state'.enrichment_results) = Len(a_state.enrichment_results)
          /\ \A k \in DOMAIN a_state.enrichment_results :
                /\ DOMAIN a_state'.enrichment_results[k] = DOMAIN a_state.enrichment_results[k]
                /\ \A f \in DOMAIN a_state.enrichment_results[k] \ DOMAIN a_state.conflicts :
                      a_state'.enrichment_results[k][f] = a_state.enrichment_results[k][f]
          /\ a_input' = a_input]_vars

\* resolve has made the results agree on the address, and quality_metrics still holds
\* the consistency fusion computed on the disagreeing results
C36_Witness ==
    /\ Resolved
    /\ visited[Len(visited)] = "resolve_conflicts"
    /\ "corporate_address" \in DOMAIN a_state.conflicts
    /\ a_state.quality_metrics.data_consistency < 5040
    /\ calculate_consistency_score(a_state.enrichment_results) = 5040

\* a list of n contributions of which d are distinct
WithDistinct(n, d) == [k \in 1..n |-> IF k < d THEN k ELSE d]

\* C30: for a fixed number of contributions to a field, field consistency is strictly
\* smaller for a list of that many contributions with more distinct values, and it
\* lies between 0.0 and 1.0; data_consistency, the mean over the fields, does too.
C30_ConsistencyWithinUnitInterval ==
    JustFused =>
        LET results == a_state.enrichment_results
        IN  /\ \A f \in AggregatedFields(results) :
                  LET contributed == AggregatedValues(results, f)
                  IN  /\ FieldConsistency(contributed) \in 0..5040
                      /\ \A d \in 1..Len(contributed) :
                            /\ FieldConsistency(WithDistinct(Len(contributed), d)) \in 0..5040
                            /\ d > Cardinality(Seq2Set(contributed))
                                  => FieldConsistency(WithDistinct(Len(contributed), d))
                                         < FieldConsistency(contributed)
                            /\ d < Cardinality(Seq2Set(contributed))
                                  => FieldConsistency(WithDistinct(Len(contributed), d))
                                         > FieldConsistency(contributed)
            /\ a_state.quality_metrics.data_consistency \in 0..5040

\* fusion has run on results of which three hold the address, with two distinct values:
\* a list between the all-equal and the all-different lists of three contributions
C30_Witness ==
    /\ JustFused
    /\ Len(AggregatedValues(a_state.enrichment_results, "corporate_address")) = 3
    /\ Cardinality(Seq2Set(AggregatedValues(a_state.enrichment_results, "corporate_address"))) = 2
    /\ FieldConsistency(AggregatedValues(a_state.enrichment_results, "corporate_address")) = 2520

\* finalize has run on the record: final_result is set and not yet returned
Finalized == a_pc = "workflow" /\ a_node = "END"

\* 0.3 x classification confidence + 0.3 x consistency + 0.2 x fields / 6
\* + 0.2 x min(1, sources / 3), 5040000 = 1.0
WeightedSum(confidence, consistency, fields, sources) ==
    LET diversity == IF sources >= 3 THEN 5040 ELSE 1680 * sources
    IN  15120 * confidence + 300 * consistency + 200 * 840 * fields + 200 * diversity

\* C31: the agent confidence of a finalized record is 0.3 x classification confidence
\* + 0.3 x data_consistency + 0.2 x field_completeness + 0.2 x min(1, source_diversity / 3)
\* rounded to three decimals, and 0.3 x classification confidence when no source
\* returned data.
C31_AgentConfidenceIsTheWeightedSum ==
    Finalized =>
        LET got == a_state.final_result.agent_confidence
            confidence == a_state.entity_classification.confidence
            want == WeightedSum(confidence,
                                a_state.quality_metrics.data_consistency,
                                Cardinality(AggregatedFields(a_state.enrichment_results)),
                                Cardinality(Seq2Set(a_state.data_sources_attempted)))
        IN  /\ 2 * (5040 * got - want) <= 5040
            /\ 2 * (want - 5040 * got) <= 5040
            /\ a_state.enrichment_results = <<>> => got = 3 * confidence

\* a record is finalized whose sources disagreed on the address and filled the six
\* target fields
C31_Witness ==
    /\ Finalized
    /\ "resolve_conflicts" \in Seq2Set(visited)
    /\ a_state.quality_metrics.data_consistency < 5040
    /\ Cardinality(AggregatedFields(a_state.enrichment_results)) = 6
    /\ Len(a_state.data_sources_attempted) >= 2

S_GoldenChick ==
    <<"G","o","l","d","e","n"," ","C","h","i","c","k"," ",
      "E","n","t","e","r","p","r","i","s","e","s"," ","L","L","C">>

S_SmithJohn == <<"S","m","i","t","h",","," ","J","o","h","n">>

\* the records of the scenarios: the Texas business, and the person in three states
ScenarioRecords ==
    {[AgentSample("business") EXCEPT !.franchisee = name, !.state = st] :
        name \in {S_GoldenChick}, st \in {S_TX}}
    \cup {[AgentSample("individual") EXCEPT !.franchisee = name, !.state = st] :
            name \in {S_SmithJohn}, st \in {S_TX, <<"C","A">>, <<"n","y">>}}

InitScenario ==
    /\ a_input \in {<<record>> : record \in ScenarioRecords}
    /\ a_pc = "loop"
    /\ a_i = 0
    /\ a_node = "END"
    /\ a_state = << >>
    /\ a_results = <<>>
    /\ invoked = <<>>
    /\ visited = <<>>
    /\ hash_order = {}
    /\ ProdAtRest
    /\ ResolveAtRest
    /\ MergeAtRest
    /\ ClassifyAtRest

SpecScenario == InitScenario /\ [][NextAgent]_vars

\* the workflow of the record has reached its end, every primary source having
\* replied as the shipped simulated source does and no fallback having been consulted
EndedOnShippedPrimaries ==
    /\ a_pc = "workflow" /\ a_node = "END"
    /\ Len(a_state.enrichment_results) = 2
    /\ \A k \in 1..2 :
          /\ a_state.enrichment_results[k].priority = "primary"
          /\ "source_confidence" \in DOMAIN a_state.enrichment_results[k]

\* C22: for the business record "Golden Chick Enterprises LLC" of state TX the two
\* primary sources produce no field conflict, so resolve is skipped; the final record
\* has corporate_name and corporate_phone populated and source_diversity is 2.
C22_GoldenChickHasNoConflict ==
    (EndedOnShippedPrimaries /\ a_state.record.franchisee = S_GoldenChick) =>
        /\ DOMAIN a_state.conflicts = {}
        /\ \A k \in DOMAIN visited : visited[k] # "resolve_conflicts"
        /\ a_state.final_result["corporate_name"] # <<>>
        /\ a_state.final_result["corporate_phone"] # <<>>
        /\ a_state.quality_metrics.source_diversity = 2

\* C23: for a record named "Smith, John", in any state, only the two primary
\* individual sources are invoked, both contribute the franchisee_owner "John Smith",
\* data_consistency is 1.0, the conflict set is empty and resolve is skipped.
C23_SmithJohnSources ==
    (EndedOnShippedPrimaries /\ a_state.record.franchisee = S_SmithJohn) =>
        /\ invoked = <<[source |-> "linkedin_individual", priority |-> "primary"],
                       [source |-> "google_search", priority |-> "primary"]>>
        /\ \A k \in 1..2 :
              a_state.enrichment_results[k]["franchisee_owner"] =
                  <<"J","o","h","n"," ","S","m","i","t","h">>
        /\ a_state.quality_metrics.data_consistency = 5040
        /\ DOMAIN a_state.conflicts = {}
        /\ \A k \in DOMAIN visited : visited[k] # "resolve_conflicts"

\* the workflow of "Smith, John" of state ny has ended on the replies of both primaries
C23_Witness ==
    /\ EndedOnShippedPrimaries
    /\ a_state.record.franchisee = S_SmithJohn
    /\ a_state.record.state = <<"n","y">>
    /\ a_state.final_result["franchisee_owner"] = <<"J","o","h","n"," ","S","m","i","t","h">>

(***************************************************************************)
(* Production pipeline: the merge as a function of the source results      *)
(***************************************************************************)
\* how many source results are m_enriched into the record
MaxMerged == 3

\* the values a source result may hold per field: none, plain ones of several lengths,
\* and an address with the verified marker
MergeValues(field) ==
    CASE field = "corporate_address" -> {<<>>, <<"a","b">>, S_Verified \o <<"z">>, S_Verified}
      [] field = "corporate_phone" -> {<<>>, <<"5">>, <<"5","5">>, <<"4","4">>}
      [] OTHER -> {<<>>, <<"x">>, <<"y","y">>}

\* the source results tried: an address, a phone and an owner, each possibly empty
MergeData ==
    [corporate_address : MergeValues("corporate_address"),
     corporate_phone : MergeValues("corporate_phone"),
     franchisee_owner : MergeValues("franchisee_owner")]

\* the loop body of enrich_record, lines 188-190: the next result is m_enriched
merge_next ==
    /\ m_k < MaxMerged
    /\ \E data \in MergeData :
         /\ m_enriched' = merge_enrichment_data(m_enriched, data)
         /\ m_data' = data
    /\ m_k' = m_k + 1
    /\ UNCHANGED <<prodVars, agentVars, resolveVars, classifyVars>>

InitMerge ==
    /\ m_enriched = NewEnriched(ProdSample("business", "1"))
    /\ m_data = << >>
    /\ m_k = 0
    /\ ProdAtRest
    /\ AgentAtRest
    /\ ResolveAtRest
    /\ ClassifyAtRest

NextMerge == merge_next

SpecMerge == InitMerge /\ [][NextMerge]_vars

\* C38: merging a source result changes an enrichment field only as follows: an empty
\* source value changes nothing; an empty field takes a non-empty source value; a
\* populated field keeps its value, except that an address with the verified marker
\* replaces the address and a strictly longer phone replaces the phone; a populated
\* field never becomes empty.
C38_MergeKeepsPopulatedFields ==
    [][\A f \in ENRICHMENT_FIELDS :
          LET value == IF f \in DOMAIN m_data' THEN m_data'[f] ELSE <<>>
          IN  /\ value = <<>> => m_enriched'[f] = m_enriched[f]
              /\ m_enriched[f] # <<>> =>
                    /\ m_enriched'[f] # <<>>
                    /\ \/ m_enriched'[f] = m_enriched[f]
                       \/ /\ f = "corporate_address"
                          /\ Contains(value, S_Verified)
                          /\ m_enriched'[f] = value
                       \/ /\ f = "corporate_phone"
                          /\ Len(value) > Len(m_enriched[f])
                          /\ m_enriched'[f] = value]_vars

\* a longer phone and a verified address have replaced the values m_enriched before, while
\* the owner m_enriched first was kept against a different one
C38_Witness ==
    /\ m_k >= 2
    /\ m_enriched.corporate_phone = <<"5","5">>
    /\ m_enriched.corporate_address = S_Verified
    /\ m_data.corporate_address = <<"a","b">>
    /\ m_data.corporate_phone = <<"4","4">>
    /\ m_data.franchisee_owner = <<"y","y">>
    /\ m_enriched.franchisee_owner = <<"x">>

(***************************************************************************)
(* Classification and planning as functions of the record: both            *)
(* classifiers and the planner applied to every record below               *)
(***************************************************************************)
MaxNameWords == 3

\* the words names are made of: a plain word, a "Last," word, a legal-entity suffix in
\* both cases, and a word that holds two indicators (INC, CORP)
NameWords ==
    {<<"A","c","e">>, <<"S","m","i","t","h",",">>, <<"L","L","C">>, <<"l","l","c">>,
     <<"I","n","c","o","r","p","o","r","a","t","e","d">>}

\* the name strings tried: up to MaxNameWords words joined by one blank (the empty
\* name among them), and two names made of whitespace only
NameStrings ==
    {Join(ws, <<" ">>) : ws \in UNION {[1..n -> NameWords] : n \in 0..MaxNameWords}}
    \cup {<<" ">>, <<" ", " ">>}

\* the "state" column tried: TX in three spellings, another state, the empty string, a
\* value that is not a str, and no column at all
StateValues == {<<"T","X">>, <<"t","x">>, <<"T","x">>, <<"C","A">>, <<>>, NotAStr}

ClassifyInputs ==
    {[franchisee |-> name, state |-> st] : name \in NameStrings, st \in StateValues}
    \cup {[franchisee |-> name] : name \in NameStrings}

\* EnhancedEntityClassifier.classify_entity(record.franchisee), as enrich_record calls it
cl_classify_entity ==
    /\ c_pc.production = "classify"
    /\ IF classify_entity_raises(c_record.franchisee)
       THEN /\ c_pc' = [c_pc EXCEPT !.production = "raised"]
            /\ c_out' = c_out
       ELSE /\ c_pc' = [c_pc EXCEPT !.production = "returned"]
            /\ c_out' = [c_out EXCEPT !.production = classify_entity(c_record.franchisee)]
    /\ UNCHANGED c_record
    /\ UNCHANGED <<prodVars, agentVars, resolveVars, mergeVars>>

\* the node _classify_entity_node on the record
cl_classify_entity_node ==
    /\ c_pc.agentic = "classify_entity"
    /\ IF classify_entity_node_raises(c_record)
       THEN /\ c_pc' = [c_pc EXCEPT !.agentic = "raised"]
            /\ c_out' = c_out
       ELSE /\ c_pc' = [c_pc EXCEPT !.agentic = "plan_enrichment"]
            /\ c_out' = [c_out EXCEPT !.classification = classify_entity_node(c_record)]
    /\ UNCHANGED c_record
    /\ UNCHANGED <<prodVars, agentVars, resolveVars, mergeVars>>

\* the node _plan_enrichment_strategy on the classification and the record, then the
\* conditional edge to the execute node
cl_plan_enrichment_strategy ==
    /\ c_pc.agentic = "plan_enrichment"
    /\ IF plan_enrichment_strategy_raises(c_out.classification, c_record)
       THEN /\ c_pc' = [c_pc EXCEPT !.agentic = "raised"]
            /\ c_out' = c_out
       ELSE /\ c_pc' = [c_pc EXCEPT
                           !.agentic = route_enrichment_strategy(c_out.classification)]
            /\ c_out' = [c_out EXCEPT
                           !.strategy = plan_enrichment_strategy(c_out.classification, c_record)]
    /\ UNCHANGED c_record
    /\ UNCHANGED <<prodVars, agentVars, resolveVars, mergeVars>>

InitClassify ==
    /\ c_record \in ClassifyInputs
    /\ c_pc = [production |-> "classify", agentic |-> "classify_entity"]
    /\ c_out = [production |-> << >>, classification |-> << >>, strategy |-> << >>]
    /\ ProdAtRest
    /\ AgentAtRest
    /\ ResolveAtRest
    /\ MergeAtRest

NextClassify ==
    \/ cl_classify_entity
    \/ cl_classify_entity_node
    \/ cl_plan_enrichment_strategy

SpecClassify == InitClassify /\ [][NextClassify]_vars

\* the node _classify_entity_node has returned a classification for the record
AgentClassified == c_out.classification # << >>

\* how many of the indicators occur in the name, whatever the case of its letters
IndicatorsIn(indicators, name) ==
    Cardinality({k \in DOMAIN indicators : Contains(Lower(name), Lower(indicators[k]))})

\* C15: the agentic classifier returns the result of the first matching rule: (1) an
\* indicator occurs in the name, case-insensitively: business, min(0.95, 0.7 + 0.1 n);
\* (2) a comma and exactly two tokens: individual, 0.9; (3) exactly two tokens:
\* individual, 0.8; (4) otherwise business, 0.6.
C15_FirstMatchingRule ==
    AgentClassified =>
        LET name == c_record.franchisee
            n == IndicatorsIn(AGENT_BUSINESS_INDICATORS, name)
            tokens == Len(Split(name))
            got == <<c_out.classification.type, c_out.classification.confidence>>
        IN  IF n >= 1 THEN got = <<"business", Min(95, 70 + 10 * n)>>
            ELSE IF Contains(name, <<",">>) /\ tokens = 2 THEN got = <<"individual", 90>>
            ELSE IF tokens = 2 THEN got = <<"individual", 80>>
            ELSE got = <<"business", 60>>

\* a 'Last, First' shaped name that holds an indicator has been classified as a business
C15_Witness ==
    /\ AgentClassified
    /\ Contains(c_record.franchisee, <<",">>)
    /\ Len(Split(c_record.franchisee)) = 2
    /\ c_out.classification.type = "business"

\* classify_entity has returned a classification for the record's name
ProdClassified == c_pc.production = "returned"

\* the name holds a legal-entity suffix, in either case
HasLegalSuffix(name) ==
    IndicatorsIn(<<U_LLC, U_INC, <<"C","O","R","P">>, <<"L","T","D">> >>, name) > 0

C17_TwoTokenNamesAreIndividuals ==
    LET name == c_record.franchisee
        expected == <<"individual", IF Contains(name, <<",">>) THEN 90 ELSE 80>>
    IN  Len(Split(name)) = 2 =>
          /\ (AgentClassified /\ IndicatorsIn(AGENT_BUSINESS_INDICATORS, name) = 0) =>
                <<c_out.classification.type, c_out.classification.confidence>> = expected
          /\ (ProdClassified /\ IndicatorsIn(BUSINESS_INDICATORS, name) = 0) =>
                <<c_out.production.type, c_out.production.confidence>> = expected

\* C18: classification never fails on a name string, the empty one and the ones made
\* of whitespace included: neither classifier raises, the type returned is business or
\* individual, the confidence lies in [0, 1] (hundredths), and the empty name gets the
\* default, business with confidence 0.6.
C18_ClassifyNeverFails ==
    /\ c_pc.production # "raised"
    /\ c_pc.agentic = "raised" => AgentClassified
    /\ ProdClassified =>
          /\ c_out.production.type \in {"business", "individual"}
          /\ c_out.production.confidence >= 0 /\ c_out.production.confidence <= 100
          /\ c_record.franchisee = <<>> =>
                c_out.production.type = "business" /\ c_out.production.confidence = 60
    /\ AgentClassified =>
          /\ c_out.classification.type \in {"business", "individual"}
          /\ c_out.classification.confidence >= 0 /\ c_out.classification.confidence <= 100
          /\ c_record.franchisee = <<>> =>
                c_out.classification.type = "business" /\ c_out.classification.confidence = 60

\* both classifiers have classified the empty name
C18_Witness ==
    /\ c_record.franchisee = <<>>
    /\ ProdClassified /\ c_out.production.confidence = 60
    /\ AgentClassified /\ c_out.classification.confidence = 60

\* the node _plan_enrichment_strategy has returned a strategy for the record
Planned == c_out.strategy # << >>

\* C19: the strategy depends on the record only through the threshold: a business
\* gets the primaries business_registry, google_places, the fallbacks
\* corporate_database, linkedin_company and the threshold 0.8 exactly when the record's
\* state is TX in any case, 0.7 otherwise; an individual gets linkedin_individual,
\* google_search, then people_search, social_media, and 0.7 whatever the state.
C19_StrategyByTypeAndState ==
    Planned =>
        IF c_out.classification.type = "business"
        THEN /\ c_out.strategy.primary_sources = <<"business_registry", "google_places">>
             /\ c_out.strategy.fallback_sources = <<"corporate_database", "linkedin_company">>
             /\ c_out.strategy.confidence_threshold =
                    IF Lower(c_record.state) = <<"t","x">> THEN 80 ELSE 70
        ELSE /\ c_out.strategy.primary_sources = <<"linkedin_individual", "google_search">>
             /\ c_out.strategy.fallback_sources = <<"people_search", "social_media">>
             /\ c_out.strategy.confidence_threshold = 70

\* a business whose state is written "tx" has been planned with the threshold 0.8
C19_Witness ==
    /\ Planned
    /\ c_out.classification.type = "business"
    /\ c_record.state = <<"t","x">>
    /\ c_out.strategy.confidence_threshold = 80

\* C20: planning never fails: for every classification and every record, one whose
\* state is missing, empty or not a str included, the node returns a strategy and the
\* workflow goes on to an execute node.
C20_PlanNeverFails ==
    AgentClassified =>
        \/ c_pc.agentic = "plan_enrichment"
        \/ /\ Planned
           /\ c_pc.agentic \in {"execute_business_enrichment", "execute_individual_enrichment"}

(***************************************************************************)
(* Fusion and resolve as functions of the source results                   *)
(***************************************************************************)
MaxContributions == 3

MaxResolveCalls == 2

\* two runs of the program on the same source results (two processes, each with its
\* own str hash salt)
Runs == 1..2

ResolveSources == {"business_registry", "google_places", "corporate_database"}

\* candidate values: a short one, a longer one, one carrying the verified marker, and
\* one without the marker that is longer than the marked one
ResolveValues ==
    {<<"a","b">>, <<"a","b","c">>, S_Verified \o <<"z">>,
     <<"u","n","v","e","r","i","f","i","e","d",":","y">>}

\* the sequences of results tried: one field, each source contributing at most once
ResolveInputs ==
    {q \in UNION {[1..n -> [corporate_address : ResolveValues, source : ResolveSources,
                             priority : {"primary"}]] : n \in 2..MaxContributions} :
        \A j, k \in DOMAIN q : j # k => q[j].source # q[k].source}

\* _validate_and_score_results (lines 270-283, 294-304), then the edge _check_conflicts
rs_validate(run) ==
    /\ rs_pc[run] = "validate_and_score"
    /\ \E conflicts \in PossibleConflicts(rs_state[run].enrichment_results) :
         /\ rs_state' = [rs_state EXCEPT ![run].conflicts = conflicts]
         /\ rs_pc' = [rs_pc EXCEPT ![run] = check_conflicts(conflicts)]
    /\ UNCHANGED <<rs_input, rs_calls>>
    /\ UNCHANGED <<prodVars, agentVars, classifyVars, mergeVars>>

\* _resolve_data_conflicts, on the state fusion left or on an already resolved state
rs_resolve(run) ==
    /\ rs_pc[run] \in {"resolve_conflicts", "resolved"}
    /\ rs_calls[run] < MaxResolveCalls
    /\ rs_calls' = [rs_calls EXCEPT ![run] = @ + 1]
    /\ IF \E f \in DOMAIN rs_state[run].conflicts :
              resolve_raises(rs_state[run].conflicts[f].values, rs_state[run].conflicts[f].sources)
       THEN /\ rs_pc' = [rs_pc EXCEPT ![run] = "raised"]
            /\ rs_state' = rs_state
       ELSE /\ rs_pc' = [rs_pc EXCEPT ![run] = "resolved"]
            /\ rs_state' = [rs_state EXCEPT
                  ![run].resolved_data = ResolvedData(rs_state[run].conflicts),
                  ![run].first_resolved = IF rs_calls[run] = 0
                                          THEN ResolvedData(rs_state[run].conflicts) ELSE @,
                  ![run].enrichment_results =
                      ApplyResolved(@, ResolvedData(rs_state[run].conflicts))]
    /\ UNCHANGED rs_input
    /\ UNCHANGED <<prodVars, agentVars, classifyVars, mergeVars>>

InitResolve ==
    /\ rs_input \in ResolveInputs
    /\ rs_pc = [run \in Runs |-> "validate_and_score"]
    /\ rs_state = [run \in Runs |->
                      [enrichment_results |-> rs_input, conflicts |-> << >>,
                       resolved_data |-> << >>, first_resolved |-> << >>]]
    /\ rs_calls = [run \in Runs |-> 0]
    /\ ProdAtRest
    /\ AgentAtRest
    /\ ClassifyAtRest
    /\ MergeAtRest

NextResolve ==
    \/ \E run \in Runs : rs_validate(run)
    \/ \E run \in Runs : rs_resolve(run)

SpecResolve == InitResolve /\ [][NextResolve]_vars

\* C6: two runs of fusion and resolve on the same source results pick the same winner
\* for every field, and invoking resolve again on a resolved state picks the winners of
\* the first invocation again.
C6_ResolutionIsDeterministic ==
    /\ (\A run \in Runs : rs_pc[run] = "resolved") =>
          \A run \in Runs : rs_state[run].resolved_data = rs_state[1].resolved_data
    /\ \A run \in DOMAIN rs_pc :
          rs_pc[run] = "resolved" => rs_state[run].resolved_data = rs_state[run].first_resolved


\* the list q listed in the order p
Permuted(q, p) == [k \in DOMAIN q |-> q[p[k]]]

\* C27: the value the resolver picks for a conflict does not depend on the order in
\* which the candidates and their sources are listed: every permutation of the
\* candidate list (and of the source list with it) yields the same winner.
C27_WinnerIndependentOfOrder ==
    \A run \in DOMAIN rs_pc :
        rs_pc[run] = "resolved" =>
            \A f \in DOMAIN rs_state[run].conflicts :
                LET values == rs_state[run].conflicts[f].values
                    sources == rs_state[run].conflicts[f].sources
                IN  \A p \in Orderings(DOMAIN values) :
                        LET listed == Permuted(values, p)
                            from == IF Len(sources) = Len(values) THEN Permuted(sources, p)
                                    ELSE sources
                        IN  ~resolve_raises(listed, from) =>
                                resolve_value(listed, from) = rs_state[run].first_resolved[f]


\* resolve has picked a value for the field f in the run, no registry being among
\* the contributors
ResolvedWithoutRegistry(run, f) ==
    /\ rs_pc[run] = "resolved"
    /\ f \in DOMAIN rs_state[run].conflicts
    /\ \A k \in DOMAIN rs_state[run].conflicts[f].sources :
          rs_state[run].conflicts[f].sources[k] # "business_registry"

\* some candidate of the conflict carries the verified marker
SomeVerified(run, f) ==
    \E k \in DOMAIN rs_state[run].conflicts[f].values :
        Contains(rs_state[run].conflicts[f].values[k], S_Verified)

\* C28: for a conflict with no registry among its contributors and no candidate with
\* the verified marker the resolver returns a candidate of maximal length, and among
\* several of maximal length the first contributed.
C28_LongestCandidateWins ==
    \A run \in DOMAIN rs_pc : \A f \in {"corporate_address"} :
        (ResolvedWithoutRegistry(run, f) /\ ~SomeVerified(run, f)) =>
            LET contributed == AggregatedValues(rs_input, f)
                winner == rs_state[run].first_resolved[f]
            IN  \E k \in DOMAIN contributed :
                    /\ contributed[k] = winner
                    /\ \A j \in DOMAIN contributed : Len(contributed[j]) <= Len(winner)
                    /\ \A j \in 1..(k - 1) : Len(contributed[j]) < Len(winner)


\* C29: for a conflict with no registry among its contributors in which some candidate
\* carries the verified marker, the resolver does not fail and the value it returns
\* carries the marker, whatever the lengths and the order of the candidates.
C29_VerifiedCandidateWins ==
    \A run \in DOMAIN rs_pc : \A f \in DOMAIN rs_state[run].conflicts :
        LET unregistered == \A k \in DOMAIN rs_state[run].conflicts[f].sources :
                                rs_state[run].conflicts[f].sources[k] # "business_registry"
        IN  (unregistered /\ SomeVerified(run, f)) =>
                /\ ~resolve_raises(rs_state[run].conflicts[f].values,
                                   rs_state[run].conflicts[f].sources)
                /\ rs_pc[run] = "resolved" =>
                       Contains(rs_state[run].resolved_data[f], S_Verified)

\* a marked candidate has won although an unmarked, longer candidate is listed first
C29_Witness ==
    \E run \in DOMAIN rs_pc :
        /\ ResolvedWithoutRegistry(run, "corporate_address")
        /\ SomeVerified(run, "corporate_address")
        /\ LET values == rs_state[run].conflicts["corporate_address"].values
           IN  /\ ~Contains(values[1], S_Verified)
               /\ Len(values[1]) > Len(rs_state[run].resolved_data["corporate_address"])
        /\ Contains(rs_state[run].resolved_data["corporate_address"], S_Verified)


\* resolve neither raises on the run nor picks a value no source contributed
ResolvesToContributed(run) ==
    /\ rs_pc[run] # "raised"
    /\ rs_pc[run] = "resolved" =>
          \A f \in DOMAIN rs_state[run].conflicts :
              \E k \in DOMAIN AggregatedValues(rs_input, f) :
                  AggregatedValues(rs_input, f)[k] = rs_state[run].resolved_data[f]

RegistryFirstOrAbsent(f) ==
    \A k \in DOMAIN FieldSources(rs_input, f) :
        FieldSources(rs_input, f)[k] = "business_registry" => k = 1

====
